---- MODULE Spec2Model ----
(***************************************************************************)
(* Silence/speech interval engine of antilector_bot:                       *)
(*   libs/unsilence/intervals       Interval, Intervals.optimize           *)
(*   tools/video_processing/vad     intervals_or, intervals_collapse       *)
(*   libs/unsilence_fast            FastMediaRenderer, RenderIntervalThread*)
(*                                                                         *)
(* Time is counted in integer ticks.  The source uses Python floats; every *)
(* quantity of the model is an exact integer or an exact ratio, so the     *)
(* comparisons of the source are decided exactly.  stretch_time is drawn   *)
(* from the even numbers so that stretch_time / 2 is exact.                *)
(***************************************************************************)
EXTENDS Integers, Sequences, FiniteSets, TLC

\* ------------------------------------------------------------------------
\* Bounds of the model
\* ------------------------------------------------------------------------
MaxIntervals == 3
MaxDuration == 3
MaxThreshold == 2
MaxStretchHalf == 1
MaxUpperThreshold == 3

\* ------------------------------------------------------------------------
\* Interval (libs/unsilence/intervals/interval.py)
\* ------------------------------------------------------------------------

\* Interval.__init__: _duration is a stored field, set from end - start.
Interval(start, end, is_silent) ==
    [start |-> start, end |-> end, duration |-> end - start, is_silent |-> is_silent]

\* Interval.start setter: stores the start and recomputes the duration.
SetStart(interval, new_start) ==
    [interval EXCEPT !.start = new_start, !.duration = interval.end - new_start]

\* Mutant: the end setter leaves the stored duration stale.
SetEndStaleDuration(interval, new_end) ==
    [interval EXCEPT !.end = new_end]

\* Interval.end setter: stores the end and recomputes the duration.
SetEnd(interval, new_end) ==
    [interval EXCEPT !.end = new_end, !.duration = new_end - interval.start]

\* Interval.copy
Copy(interval) == Interval(interval.start, interval.end, interval.is_silent)

\* Mutant: every interval is enlarged, whatever its class.
EnlargeEveryInterval(interval, stretch_time, is_start_interval, is_end_interval) ==
    LET stretch_time_part == stretch_time \div 2
        moved == IF is_start_interval THEN interval
                 ELSE [interval EXCEPT !.start = interval.start - stretch_time_part,
                                       !.duration = interval.end - (interval.start - stretch_time_part)]
    IN IF is_end_interval THEN moved
       ELSE [moved EXCEPT !.end = moved.end + stretch_time_part,
                          !.duration = moved.end + stretch_time_part - moved.start]

\* Interval.enlarge_audible_interval, after its stretch_time >= duration test.
EnlargeAudibleInterval(interval, stretch_time, is_start_interval, is_end_interval) ==
    LET stretch_time_part == ((IF interval.is_silent THEN -1 ELSE 1) * stretch_time) \div 2
        moved == IF is_start_interval THEN interval
                 ELSE SetStart(interval, interval.start - stretch_time_part)
    IN IF is_end_interval THEN moved ELSE SetEnd(moved, moved.end + stretch_time_part)

\* ------------------------------------------------------------------------
\* Intervals (libs/unsilence/intervals/intervals.py)
\* ------------------------------------------------------------------------

\* Mutant: only short intervals are merged into the current interval.
MergesShortOnly(interval, current_interval, is_none, short_interval_threshold) ==
    interval.duration <= short_interval_threshold

\* The first test of the loop of Intervals.__combine_intervals.  current_interval
\* starts as Interval(is_silent=None): is_none is TRUE while its is_silent is
\* None, and None == interval.is_silent is False in Python.
MergesIntoCurrent(interval, current_interval, is_none, short_interval_threshold) ==
    \/ interval.duration <= short_interval_threshold
    \/ (~is_none /\ current_interval.is_silent = interval.is_silent)

\* The loop of Intervals.__combine_intervals.
RECURSIVE CombineLoop(_, _, _, _, _, _)
CombineLoop(list, i, intervals, current_interval, is_none, short_interval_threshold) ==
    IF i > Len(list) THEN
        <<intervals, current_interval, is_none>>
    ELSE
        LET interval == list[i] IN
        IF MergesIntoCurrent(interval, current_interval, is_none, short_interval_threshold)
        THEN CombineLoop(list, i + 1, intervals,
                         SetEnd(current_interval, interval.end), is_none,
                         short_interval_threshold)
        ELSE IF is_none
        THEN CombineLoop(list, i + 1, intervals,
                         SetEnd([current_interval EXCEPT !.is_silent = interval.is_silent],
                                interval.end),
                         FALSE, short_interval_threshold)
        ELSE CombineLoop(list, i + 1, Append(intervals, current_interval),
                         Copy(interval), FALSE, short_interval_threshold)

\* Intervals.__combine_intervals: the new value of _interval_list.
CombineIntervals(list, short_interval_threshold) ==
    LET r == CombineLoop(list, 1, <<>>, Interval(0, 0, FALSE), TRUE,
                         short_interval_threshold)
        \* if current_interval.is_silent is None: current_interval.is_silent = False
        last == IF r[3] THEN [r[2] EXCEPT !.is_silent = FALSE] ELSE r[2]
    IN Append(r[1], last)

\* Intervals.__enlarge_audible_intervals: the intervals are stretched in place
\* and in order; the first interval with stretch_time >= duration raises and
\* leaves the intervals before it stretched.
RECURSIVE EnlargeLoop(_, _, _)
EnlargeLoop(list, i, stretch_time) ==
    IF i > Len(list) THEN [list |-> list, raised |-> FALSE]
    ELSE IF stretch_time >= list[i].duration THEN [list |-> list, raised |-> TRUE]
    ELSE EnlargeLoop(
            [list EXCEPT ![i] = EnlargeAudibleInterval(list[i], stretch_time,
                                                       i = 1, i = Len(list))],
            i + 1, stretch_time)

EnlargeAudibleIntervals(list, stretch_time) == EnlargeLoop(list, 1, stretch_time)

\* silence_upper_threshold None (or inf) is written NoThreshold.
NoThreshold == -1

\* Intervals.__remove_breaks: the new value of _interval_list_without_breaks.
RECURSIVE RemoveBreaksLoop(_, _, _)
RemoveBreaksLoop(list, i, silence_upper_threshold) ==
    IF i > Len(list) THEN <<>>
    ELSE LET rest == RemoveBreaksLoop(list, i + 1, silence_upper_threshold) IN
         IF list[i].is_silent /\ list[i].duration >= silence_upper_threshold
         THEN rest ELSE <<list[i]>> \o rest

\* Mutant: only the silent intervals longer than the threshold are removed.
RemoveBreaksLongerOnly(list, silence_upper_threshold) ==
    IF silence_upper_threshold = NoThreshold THEN list
    ELSE RemoveBreaksLoop(list, 1, silence_upper_threshold + 1)

RemoveBreaks(list, silence_upper_threshold) ==
    IF silence_upper_threshold = NoThreshold THEN list
    ELSE RemoveBreaksLoop(list, 1, silence_upper_threshold)

\* ------------------------------------------------------------------------
\* Inputs: contiguous timelines that start at 0
\* ------------------------------------------------------------------------

\* The timeline the detectors build by add_interval from the given durations
\* and classes: each interval starts where the previous one ended.
RECURSIVE TimelineOf(_, _, _)
TimelineOf(durations, classes, start) ==
    IF durations = <<>> THEN <<>>
    ELSE <<Interval(start, start + Head(durations), Head(classes))>>
         \o TimelineOf(Tail(durations), Tail(classes), start + Head(durations))

Timelines ==
    UNION {
        { TimelineOf(d, c, 0) : d \in [1..n -> 0..MaxDuration], c \in [1..n -> BOOLEAN] }
        : n \in 1..MaxIntervals }

\* ------------------------------------------------------------------------
\* TimelineMerger (tools/video_processing/vad/vad_unsilence.py)
\* ------------------------------------------------------------------------
MaxMergeIntervals == 2
MaxMergeDuration == 2

Max(a, b) == IF a >= b THEN a ELSE b

Min(a, b) == IF a <= b THEN a ELSE b

\* Mutant: the classes are combined with "and".
OverlapAnd(interval1, interval2) ==
    Interval(Max(interval1.start, interval2.start), Min(interval1.end, interval2.end),
             interval1.is_silent /\ interval2.is_silent)

\* The interval intervals_or emits for the current pair.
Overlap(interval1, interval2) ==
    Interval(Max(interval1.start, interval2.start), Min(interval1.end, interval2.end),
             interval1.is_silent \/ interval2.is_silent)

\* The two nested loops of intervals_or: i1 is the position of interval1 in
\* the for loop, idx2 (counted from 1) the position in intervals2.
RECURSIVE IntervalsOrLoop(_, _, _, _, _)
IntervalsOrLoop(intervals1, intervals2, i1, idx2, result) ==
    IF i1 > Len(intervals1) THEN result
    ELSE IF idx2 > Len(intervals2) THEN result
    ELSE
        LET interval1 == intervals1[i1]
            interval2 == intervals2[idx2]
            emitted == Append(result, Overlap(interval1, interval2))
        IN IF interval2.start > interval1.end
           THEN IntervalsOrLoop(intervals1, intervals2, i1 + 1, idx2, result)
           ELSE IF interval2.end > interval1.end
           THEN IntervalsOrLoop(intervals1, intervals2, i1 + 1, idx2, emitted)
           ELSE IntervalsOrLoop(intervals1, intervals2, i1, idx2 + 1, emitted)

\* intervals_or
IntervalsOr(intervals1, intervals2) == IntervalsOrLoop(intervals1, intervals2, 1, 1, <<>>)

\* The loop of intervals_collapse over intervals[1:].
RECURSIVE CollapseLoop(_, _, _, _)
CollapseLoop(list, i, result, current_interval) ==
    IF i > Len(list) THEN <<result, current_interval>>
    ELSE IF list[i].is_silent = current_interval.is_silent
    THEN CollapseLoop(list, i + 1, result, SetEnd(current_interval, list[i].end))
    ELSE CollapseLoop(list, i + 1, Append(result, current_interval), list[i])

\* Mutant: the run still open when the loop ends is never appended.
IntervalsCollapseWithoutLastRun(list) ==
    IF Len(list) < 2 THEN list
    ELSE LET r == CollapseLoop(list, 2, <<>>, list[1])
         IN IF Len(r[1]) = 0 THEN <<r[2]>> ELSE r[1]

\* intervals_collapse.  current_interval is an element of the input, changed
\* in place; the last element of the input is never the one changed, so
\* intervals.intervals[-1].end is the end the input had.
IntervalsCollapse(list) ==
    IF Len(list) < 2 THEN list
    ELSE LET r == CollapseLoop(list, 2, <<>>, list[1])
             current_interval == r[2]
             result == IF Len(r[1]) = 0 THEN <<current_interval>> ELSE r[1]
             last_end == list[Len(list)].end
         IN IF result[Len(result)].end < last_end
            THEN Append(result, SetEnd(current_interval, last_end))
            ELSE result

\* The timelines handed to intervals_or: contiguous from 0, with the two
\* single-interval timelines over [0, 10) among them.
MergeTimelines ==
    UNION {
        { TimelineOf(d, c, 0) : d \in [1..n -> 0..MaxMergeDuration], c \in [1..n -> BOOLEAN] }
        : n \in 1..MaxMergeIntervals }
    \cup { <<Interval(0, 10, c)>> : c \in BOOLEAN }

\* ------------------------------------------------------------------------
\* BatchPlanner (libs/unsilence_fast/fast_media_renderer.py, fast_render_task.py)
\* ------------------------------------------------------------------------
MaxThreads == 2
MaxGroupSize == 3
MaxBudgetUnits == 5

\* configs.MAX_RAM_FOR_UNSILENCE_RENDERING = 8 * 2**30.  Memory is counted in
\* units of 2**20 bytes, which keeps the products within TLC's integers.
MAX_RAM_FOR_UNSILENCE_RENDERING == 8 * 1024

\* configs.TOTAL_VRAM: the memory of the CUDA device, 0 without one.
TotalVrams == {0, 60}

\* max_memory_usage_bytes None is written NoLimit.
NoLimit == -1

\* What ffprobe reports for the input file.  bits_per_raw_sample 0 stands for
\* the probe failing, which get_max_seconds_buffer replaces by 8.
InputFiles ==
    { [fps |-> 1, width |-> w, height |-> 1, bits_per_raw_sample |-> b]
      : w \in {1, 2}, b \in {0, 8} }

\* An exact ratio num / den with den > 0.
Ratio(num, den) == [num |-> num, den |-> den]

\* x > r for an integer x and a ratio r.
GreaterThan(x, r) == x * r.den > r.num

\* FastMediaRenderer.get_max_ram_size_from_config.  MAX_VRAM_FOR_UNSILENCE_RENDERING
\* is 0.8 * TOTAL_VRAM.
GetMaxRamSizeFromConfig(max_memory_usage_bytes, use_nvenc, threads, total_vram) ==
    IF max_memory_usage_bytes # NoLimit THEN Ratio(max_memory_usage_bytes, threads)
    ELSE IF use_nvenc THEN Ratio(8 * total_vram, 10 * threads)
    ELSE Ratio(MAX_RAM_FOR_UNSILENCE_RENDERING, threads)

\* FastMediaRenderer.get_max_seconds_buffer
GetMaxSecondsBuffer(input_file, ram_bytes) ==
    LET bits_per_raw_sample ==
            IF input_file.bits_per_raw_sample = 0 THEN 8
            ELSE input_file.bits_per_raw_sample
        raw_byte_rate == (3 * bits_per_raw_sample * input_file.fps
                          * input_file.width * input_file.height) \div 8
    IN Ratio(ram_bytes.num, ram_bytes.den * raw_byte_rate)

\* IntervalRenderTask.create
IntervalRenderTaskCreate(interval) == [interval |-> interval]

\* IntervalGroupRenderTask()
NewGroup == [interval_render_tasks |-> <<>>, total_interval_duration |-> 0]

\* IntervalGroupRenderTask.has_tasks
HasTasks(group) == Len(group.interval_render_tasks) > 0

\* IntervalGroupRenderTask.start_timestamp
StartTimestamp(group) == group.interval_render_tasks[1].interval.start

\* IntervalGroupRenderTask.end_timestamp
EndTimestamp(group) ==
    group.interval_render_tasks[Len(group.interval_render_tasks)].interval.end

\* IntervalGroupRenderTask.add
GroupAdd(group, interval_render_task) ==
    [interval_render_tasks |-> Append(group.interval_render_tasks, interval_render_task),
     total_interval_duration |->
        group.total_interval_duration + interval_render_task.interval.duration]

\* Mutant: the durations of the group are added up (the test the source keeps
\* commented out) instead of measuring the span from the start of the group.
StartsNewGroupByTotalDuration(current_render_group, interval, max_seconds_buffer, max_group_size) ==
    /\ HasTasks(current_render_group)
    /\ \/ GreaterThan(current_render_group.total_interval_duration + interval.duration,
                      max_seconds_buffer)
       \/ Len(current_render_group.interval_render_tasks) >= max_group_size

\* Mutant: a group whose span would reach the buffer exactly is closed too.
StartsNewGroupAtBuffer(current_render_group, interval, max_seconds_buffer, max_group_size) ==
    /\ HasTasks(current_render_group)
    /\ \/ ~GreaterThan(max_seconds_buffer.num,
                       Ratio((interval.end - StartTimestamp(current_render_group))
                                * max_seconds_buffer.den, 1))
       \/ Len(current_render_group.interval_render_tasks) >= max_group_size

\* The test of FastMediaRenderer._create_tasks that closes the current group
\* before the interval is added.
StartsNewGroup(current_render_group, interval, max_seconds_buffer, max_group_size) ==
    /\ HasTasks(current_render_group)
    /\ \/ GreaterThan(interval.end - StartTimestamp(current_render_group),
                      max_seconds_buffer)
       \/ Len(current_render_group.interval_render_tasks) >= max_group_size

\* The loop of FastMediaRenderer._create_tasks.
RECURSIVE CreateTasksLoop(_, _, _, _, _, _)
CreateTasksLoop(list, i, tasks, current_render_group, max_seconds_buffer, max_group_size) ==
    IF i > Len(list) THEN <<tasks, current_render_group>>
    ELSE
        LET interval == list[i]
            closes == StartsNewGroup(current_render_group, interval,
                                     max_seconds_buffer, max_group_size)
            group == IF closes THEN NewGroup ELSE current_render_group
        IN CreateTasksLoop(list, i + 1,
                           IF closes THEN Append(tasks, current_render_group) ELSE tasks,
                           GroupAdd(group, IntervalRenderTaskCreate(interval)),
                           max_seconds_buffer, max_group_size)

\* Mutant: the group still open when the loop ends is not appended.
CreateTasksWithoutLastGroup(list, max_seconds_buffer, max_group_size) ==
    CreateTasksLoop(list, 1, <<>>, NewGroup, max_seconds_buffer, max_group_size)[1]

\* FastMediaRenderer._create_tasks
CreateTasks(list, max_seconds_buffer, max_group_size) ==
    LET r == CreateTasksLoop(list, 1, <<>>, NewGroup, max_seconds_buffer, max_group_size)
    IN IF HasTasks(r[2]) THEN Append(r[1], r[2]) ELSE r[1]

\* ------------------------------------------------------------------------
\* Exact arithmetic for the float computations of the filters and estimates
\* ------------------------------------------------------------------------
Abs(x) == IF x < 0 THEN -x ELSE x

RECURSIVE Gcd(_, _)
Gcd(a, b) == IF b = 0 THEN a ELSE Gcd(b, a % b)

\* The ratio in lowest terms, with a positive denominator.
Normalize(r) ==
    IF r.num = 0 THEN Ratio(0, 1)
    ELSE LET g == Gcd(Abs(r.num), r.den) IN Ratio(r.num \div g, r.den \div g)

\* a < b
RatLess(a, b) == a.num * b.den < b.num * a.den

\* a / b, for b > 0
RatDiv(a, b) == Normalize(Ratio(a.num * b.den, a.den * b.num))

\* a + b
RatAdd(a, b) == Normalize(Ratio(a.num * b.den + b.num * a.den, a.den * b.den))

\* a - b
RatSub(a, b) == Normalize(Ratio(a.num * b.den - b.num * a.den, a.den * b.den))

\* min(a, b) of Python: b when b < a, else a.
RatMin(a, b) == IF RatLess(b, a) THEN b ELSE a

\* ------------------------------------------------------------------------
\* Render filters (lib/unsilence/render_media/render_filter.py)
\* ------------------------------------------------------------------------
MaxDurationTwentieths == 6

FFMPEG_MIN_TEMPO == Ratio(1, 2)

FFMPEG_MAX_TEMPO == Ratio(100, 1)

\* clamp_speed, lines 15-16: the speed before it is bounded.
SpeedForMinimumDuration(duration, speed, minimum_interval_duration) ==
    IF RatLess(RatDiv(duration, speed), minimum_interval_duration)
    THEN RatDiv(duration, minimum_interval_duration)
    ELSE speed

\* Mutant: the upper bound of the tempo is not applied.
ClampSpeedWithoutMaximum(duration, speed, minimum_interval_duration) ==
    LET s == SpeedForMinimumDuration(duration, speed, minimum_interval_duration) IN
    IF RatLess(s, FFMPEG_MIN_TEMPO) THEN FFMPEG_MIN_TEMPO ELSE s

\* clamp_speed
ClampSpeed(duration, speed, minimum_interval_duration) ==
    LET s == SpeedForMinimumDuration(duration, speed, minimum_interval_duration) IN
    IF RatLess(s, FFMPEG_MIN_TEMPO) THEN FFMPEG_MIN_TEMPO
    ELSE IF RatLess(FFMPEG_MAX_TEMPO, s) THEN FFMPEG_MAX_TEMPO
    ELSE s

\* get_speed_and_volume: the speed of the interval's class, clamped.
GetSpeedAndVolume(options, interval) ==
    ClampSpeed(interval.duration,
               IF interval.is_silent THEN options.silent_speed ELSE options.audible_speed,
               options.minimum_interval_duration)

\* The format ":.4f": the number of ten-thousandths nearest to r >= 0.  A
\* decimal tie is no tie for the binary float that is formatted, which lies
\* on one side of it: tie_up tells which.
Format4f(r, tie_up) ==
    LET scaled == r.num * 10000
        q == scaled \div r.den
        rem == scaled % r.den
    IN IF 2 * rem > r.den THEN q + 1
       ELSE IF 2 * rem < r.den THEN q
       ELSE IF tie_up THEN q + 1 ELSE q

\* Mutant: a fade longer than half the interval is left out.
ClampFadeOrDrop(requested, total_duration) ==
    IF RatLess(RatDiv(total_duration, Ratio(2, 1)), requested) THEN Ratio(0, 1) ELSE requested

\* get_fade_filter, lines 35-36: min(requested, total_duration / 2)
ClampFade(requested, total_duration) ==
    RatMin(requested, RatDiv(total_duration, Ratio(2, 1)))

\* get_fade_filter: the two clamped durations, whether each afade is in the
\* returned string, and the numbers written into it (in ten-thousandths).
GetFadeFilter(total_duration, interval_in_fade_duration, interval_out_fade_duration, tie_up) ==
    LET in_duration == ClampFade(interval_in_fade_duration, total_duration)
        out_duration == ClampFade(interval_out_fade_duration, total_duration)
        out_start == RatSub(total_duration, out_duration)
    IN [ in_duration |-> in_duration,
         out_duration |-> out_duration,
         has_in |-> in_duration # Ratio(0, 1),
         has_out |-> out_duration # Ratio(0, 1),
         in_d |-> Format4f(in_duration, tie_up),
         out_st |-> Format4f(out_start, tie_up),
         out_d |-> Format4f(out_duration, tie_up) ]

\* The intervals handed to IntervalRenderTask.create: durations of up to
\* MaxDurationTwentieths twentieths of a second, and 0.0003 s, 0.005 s, 1 s
\* and 30 s.
FilterDurations ==
    { Normalize(Ratio(k, 20)) : k \in 0..MaxDurationTwentieths }
    \cup { Ratio(3, 10000), Ratio(1, 200), Ratio(1, 1), Ratio(30, 1) }

\* Values of RenderOptions.audible_speed and silent_speed.
AudibleSpeeds == { Ratio(1, 2), Ratio(1, 1), Ratio(2, 1) }

SilentSpeeds == { Ratio(1, 1), Ratio(6, 1), Ratio(10, 1), Ratio(200, 1) }

\* Values of RenderOptions.minimum_interval_duration.
MinimumIntervalDurations == { Ratio(1, 4), Ratio(1, 2) }

\* Values of RenderOptions.interval_in_fade_duration and
\* interval_out_fade_duration.
FadeDurations == { Ratio(0, 1), Ratio(1, 100), Ratio(1, 4) }

\* ------------------------------------------------------------------------
\* Time estimate (libs/unsilence/intervals/time_calculations.py)
\* ------------------------------------------------------------------------
MaxEstimateIntervals == 3

\* Intervals.optimize as one call: combine, enlarge, remove breaks.  A
\* ValueError of the second pass ends optimize with _interval_list rebound
\* and partly stretched and _interval_list_without_breaks untouched.
Optimize(list, list_without_breaks, short_threshold, stretch, upper_threshold) ==
    LET combined == CombineIntervals(list, short_threshold)
        r == EnlargeAudibleIntervals(combined, stretch)
    IN IF r.raised
       THEN [raised |-> TRUE, list |-> r.list, list_without_breaks |-> list_without_breaks]
       ELSE [raised |-> FALSE, list |-> r.list,
             list_without_breaks |-> RemoveBreaks(r.list, upper_threshold)]

\* calculate_time, lines 24-30: audible_before and silent_before.
RECURSIVE DurationBefore(_, _)
DurationBefore(list, is_silent) ==
    IF list = <<>> THEN Ratio(0, 1)
    ELSE RatAdd(IF Head(list).is_silent = is_silent
                THEN Ratio(Head(list).duration, 1) ELSE Ratio(0, 1),
                DurationBefore(Tail(list), is_silent))

\* calculate_time, lines 38-45: new_audible and new_silent.
RECURSIVE DurationAfter(_, _, _, _)
DurationAfter(list, is_silent, speed, minimum_interval_duration) ==
    IF list = <<>> THEN Ratio(0, 1)
    ELSE LET duration == Ratio(Head(list).duration, 1) IN
         RatAdd(IF Head(list).is_silent = is_silent
                THEN RatDiv(duration, ClampSpeed(duration, speed, minimum_interval_duration))
                ELSE Ratio(0, 1),
                DurationAfter(Tail(list), is_silent, speed, minimum_interval_duration))

\* One entry of time_data: (seconds, share of the duration before).
Bucket(value, ratio) == [value |-> value, ratio |-> ratio]

\* time_data["delta"][bucket]
Delta(after, before) ==
    Bucket(RatSub(after.value, before.value), RatSub(after.ratio, before.ratio))

NoBucket == Bucket(Ratio(0, 1), Ratio(0, 1))

NoBuckets == [all |-> NoBucket, audible |-> NoBucket, silent |-> NoBucket]

\* No estimate has been computed.
NoTimeData == [kind |-> "none", before |-> NoBuckets, after |-> NoBuckets, delta |-> NoBuckets]

\* The dictionary calculate_time returns from the sums it has taken.
TimeData(audible_before, silent_before, new_audible, new_silent) ==
    LET all_before == RatAdd(audible_before, silent_before)
        all_after == RatAdd(new_audible, new_silent)
        before == [all |-> Bucket(all_before, Ratio(1, 1)),
                   audible |-> Bucket(audible_before, RatDiv(audible_before, all_before)),
                   silent |-> Bucket(silent_before, RatDiv(silent_before, all_before))]
        after == [all |-> Bucket(all_after, RatDiv(all_after, all_before)),
                  audible |-> Bucket(new_audible, RatDiv(new_audible, all_before)),
                  silent |-> Bucket(new_silent, RatDiv(new_silent, all_before))]
    IN IF all_before = Ratio(0, 1)
       THEN [NoTimeData EXCEPT !.kind = "ZeroDivisionError"]
       ELSE [kind |-> "ok", before |-> before, after |-> after,
             delta |-> [all |-> Delta(after.all, before.all),
                        audible |-> Delta(after.audible, before.audible),
                        silent |-> Delta(after.silent, before.silent)]]

\* Mutant: the sums after rendering are taken over the primary sequence.
CalculateTimeOverPrimary(list, list_without_breaks, audible_speed, silent_speed, minimum_interval_duration) ==
    TimeData(DurationBefore(list, FALSE), DurationBefore(list, TRUE),
             DurationAfter(list, FALSE, audible_speed, minimum_interval_duration),
             DurationAfter(list, TRUE, silent_speed, minimum_interval_duration))

\* calculate_time: list is intervals.intervals, list_without_breaks is
\* intervals.intervals_without_breaks.
CalculateTime(list, list_without_breaks, audible_speed, silent_speed, minimum_interval_duration) ==
    TimeData(DurationBefore(list, FALSE), DurationBefore(list, TRUE),
             DurationAfter(list_without_breaks, FALSE, audible_speed,
                           minimum_interval_duration),
             DurationAfter(list_without_breaks, TRUE, silent_speed,
                           minimum_interval_duration))

\* Durations, in seconds, of the intervals of the timelines that are estimated.
EstimateDurations == {0, 1, 10, 50}

EstimateTimelines ==
    UNION {
        { TimelineOf(d, c, 0) : d \in [1..n -> EstimateDurations], c \in [1..n -> BOOLEAN] }
        : n \in 1..MaxEstimateIntervals }

\* Arguments of optimize, in seconds.
EstimateShortThresholds == {0, 1}

EstimateStretchTimes == {0, 2}

EstimateUpperThresholds == {NoThreshold, 30}

\* Arguments of calculate_time.
EstimateAudibleSpeeds == { Ratio(1, 1), Ratio(2, 1) }

EstimateSilentSpeeds == { Ratio(6, 1), Ratio(200, 1) }

\* ------------------------------------------------------------------------
\* Silence detection (libs/unsilence/detect_silence/detect_silence.py)
\* ------------------------------------------------------------------------
MaxMediaDuration == 3
MaxEvents == 4

\* media_duration = None
NoDuration == -2

\* The regular expression of line 60 accepts a leading "-": ffmpeg reports
\* a silence that begins with the stream at a timestamp a little below 0.
MinTimestamp == -1

\* ------------------------------------------------------------------------
\* Speech detection (tools/video_processing/vad/vad_unsilence.py)
\*
\* Time is counted in samples: speech_timestamp / sampling_rate and
\* len(wav) / sampling_rate divide by the same positive number, which keeps
\* the order and the equality of the sample positions.
\* ------------------------------------------------------------------------
MaxSamples == 5
MaxSpeechRanges == 2

\* One entry of speech_timestamps.
SpeechRange(start, end) == [start |-> start, end |-> end]

\* What get_speech_timestamps returns for a recording of len_wav samples:
\* non-empty ranges, sorted, none overlapping the next.
SpeechTimestamps(len_wav) ==
    UNION {
        { ts \in [1..n -> { SpeechRange(a, b) : a \in 0..len_wav, b \in 0..len_wav }] :
            /\ \A i \in 1..n : ts[i].start < ts[i].end
            /\ \A i \in 1..(n - 1) : ts[i].end <= ts[i + 1].start }
        : n \in 0..MaxSpeechRanges }

\* detect_speech, lines 74-86: one pass of the loop over speech_timestamps.
\* The result is the list after the two add_interval calls and the new
\* no_speech_interval.
ConvertSpeechRange(list, no_speech, interval) ==
    [ list |-> list \o << SetEnd(no_speech, interval.start),
                          Interval(interval.start, interval.end, FALSE) >>,
      no_speech_interval |-> Interval(interval.end, 0, TRUE) ]

\* Mutant: the silence after the last speech range is not added.
CloseSpeechTimelineWithoutTail(list, no_speech, duration) ==
    [ list |-> list, no_speech_interval |-> no_speech ]

\* detect_speech, lines 88-90.
CloseSpeechTimeline(list, no_speech, duration) ==
    IF no_speech.start < duration
    THEN [ list |-> Append(list, SetEnd(no_speech, duration)),
           no_speech_interval |-> SetEnd(no_speech, duration) ]
    ELSE [ list |-> list, no_speech_interval |-> no_speech ]

\* ------------------------------------------------------------------------
\* RenderOptions (libs/unsilence/render_media/options.py, utils/video/misc.py)
\* ------------------------------------------------------------------------
MaxOptionThreads == 9

NVENC_MAX_CONCURRENT_SESSIONS == 8

NVENC_CODECS == {"hevc_nvenc", "h264_nvenc", "av1_nvenc"}

\* force_video_codec = None
NoCodec == "None"

\* Values of RenderOptions.force_video_codec.
VideoCodecs == NVENC_CODECS \cup {NoCodec, "libx264", "hevc", "HEVC_NVENC", ""}

\* Mutant: the number of threads is not tested.
EnsureNvencCorrectAnyThreads(use_nvenc, force_video_codec, threads) ==
    IF ~use_nvenc
    THEN IF force_video_codec \in NVENC_CODECS THEN "You must enable nvenc" ELSE "ok"
    ELSE IF force_video_codec = NoCodec THEN "You must specify video codec"
    ELSE IF force_video_codec \notin NVENC_CODECS THEN "Video codec must be in NVENC_CODECS"
    ELSE "ok"

\* ensure_nvenc_correct: "ok" when it returns, else the ValueError it raises.
EnsureNvencCorrect(use_nvenc, force_video_codec, threads) ==
    IF ~use_nvenc
    THEN IF force_video_codec \in NVENC_CODECS THEN "You must enable nvenc" ELSE "ok"
    ELSE IF force_video_codec = NoCodec THEN "You must specify video codec"
    ELSE IF force_video_codec \notin NVENC_CODECS THEN "Video codec must be in NVENC_CODECS"
    ELSE IF threads > NVENC_MAX_CONCURRENT_SESSIONS THEN "nvenc supports maximum sessions"
    ELSE "ok"

\* RenderOptions(...): the fields are validated first (threads is a
\* PositiveInt), then the model validator check_nvenc_settings runs.
ConstructRenderOptions(fields) ==
    IF fields.threads < 1
    THEN [kind |-> "ValidationError", error |-> "threads: Input should be greater than 0"]
    ELSE LET r == EnsureNvencCorrect(fields.use_nvenc, fields.force_video_codec,
                                     fields.threads)
         IN IF r = "ok" THEN [kind |-> "constructed", error |-> "none"]
            ELSE [kind |-> "ValidationError", error |-> r]

\* ------------------------------------------------------------------------
\* Concatenation (MediaRenderer._concat_intervals, FastMediaRenderer.render)
\* ------------------------------------------------------------------------
MaxConcatFiles == 3
MaxConcatLines == 3

\* ------------------------------------------------------------------------
\* Serialization (Interval.serialize, Intervals.serialize and deserialize)
\* ------------------------------------------------------------------------

\* Interval.serialize: a dict of start, end and is_silent; the stored
\* duration is left out.
SerializeInterval(interval) ==
    [start |-> interval.start, end |-> interval.end, is_silent |-> interval.is_silent]

\* Interval.deserialize: a new Interval, whose __init__ computes the duration.
DeserializeInterval(serialized) ==
    Interval(serialized.start, serialized.end, serialized.is_silent)

\* [f(x) for x in list]
SerializeList(list) == [i \in 1..Len(list) |-> SerializeInterval(list[i])]

DeserializeList(list) == [i \in 1..Len(list) |-> DeserializeInterval(list[i])]

\* Mutant: both serialized lists are taken from _interval_list.
SerializePrimaryTwice(list, list_without_breaks) ==
    <<SerializeList(list), SerializeList(list)>>

\* Intervals.serialize
Serialize(list, list_without_breaks) ==
    <<SerializeList(list), SerializeList(list_without_breaks)>>

\* Intervals.deserialize
Deserialize(serialized) ==
    [interval_list |-> DeserializeList(serialized[1]),
     interval_list_without_breaks |-> DeserializeList(serialized[2])]

\* ------------------------------------------------------------------------
\* UnsilenceAction.unsilence_class (tools/video_processing/actions/
\* unsilence_actions.py, utils/misc.py)
\* ------------------------------------------------------------------------
MaxExtraClasses == 1

\* A class is a place of the registry; its record holds __name__ and the
\* place of its base class.  None is written NoClass.
NoClass == 0

UnsilenceRoot == 1

Class(name, base) == [name |-> name, base |-> base]

\* Unsilence and the classes derived from it in the repository, in the
\* orders in which their modules can be imported.
RepositoryRegistries ==
    { << Class("Unsilence", NoClass), Class("FastUnsilence", 1), Class("Vad", 1),
         Class("UnsilenceAndVad", 3) >>,
      << Class("Unsilence", NoClass), Class("Vad", 1), Class("FastUnsilence", 1),
         Class("UnsilenceAndVad", 2) >>,
      << Class("Unsilence", NoClass), Class("Vad", 1), Class("UnsilenceAndVad", 2),
         Class("FastUnsilence", 1) >> }

\* The registries with up to MaxExtraClasses further classes, each derived
\* from a class defined before it.
RECURSIVE Extended(_, _)
Extended(registries, k) ==
    IF k = 0 THEN registries
    ELSE registries \cup
         Extended({ Append(r, Class("Custom", base)) : r \in registries, base \in 1..4 }, k - 1)

ClassRegistries == Extended(RepositoryRegistries, MaxExtraClasses)

\* cls.__subclasses__(): the direct subclasses, in definition order.
RECURSIVE SubclassesFrom(_, _, _)
SubclassesFrom(registry, cls, i) ==
    IF i > Len(registry) THEN <<>>
    ELSE (IF registry[i].base = cls THEN <<i>> ELSE <<>>)
         \o SubclassesFrom(registry, cls, i + 1)

Subclasses(registry, cls) == SubclassesFrom(registry, cls, 1)

\* find_subclass, and the loop over cls.__subclasses__() of its lines 20-26;
\* the recursive call leaves strict_subclass at its default True.
RECURSIVE FindSubclass(_, _, _, _)
RECURSIVE FindInSubclasses(_, _, _)
FindInSubclasses(registry, subclasses, subclass_name) ==
    IF subclasses = <<>> THEN NoClass
    ELSE LET subclass == Head(subclasses) IN
         IF registry[subclass].name = subclass_name THEN subclass
         ELSE LET found == FindSubclass(registry, subclass, subclass_name, TRUE) IN
              IF found # NoClass THEN found
              ELSE FindInSubclasses(registry, Tail(subclasses), subclass_name)

FindSubclass(registry, cls, subclass_name, strict_subclass) ==
    IF ~strict_subclass /\ registry[cls].name = subclass_name THEN cls
    ELSE FindInSubclasses(registry, Subclasses(registry, cls), subclass_name)

\* serialize_unsilence_class
SerializeUnsilenceClass(registry, cls) == registry[cls].name

\* Mutant: the search for the name leaves out Unsilence itself.
ValidateUnsilenceClassStrict(registry, name) ==
    LET found == FindSubclass(registry, UnsilenceRoot, name, TRUE) IN
    IF found = NoClass THEN [kind |-> "ValueError", class |-> NoClass]
    ELSE [kind |-> "ok", class |-> found]

\* validate_unsilence_class for a string, lines 60-65.
ValidateUnsilenceClass(registry, name) ==
    LET found == FindSubclass(registry, UnsilenceRoot, name, FALSE) IN
    IF found = NoClass THEN [kind |-> "ValueError", class |-> NoClass]
    ELSE [kind |-> "ok", class |-> found]

\* Names a dump that was not written by the program can carry.
ForeignNames == {"NoSuchClass", "vad", ""}

\* ------------------------------------------------------------------------
\* State
\* ------------------------------------------------------------------------
VARIABLES
    stage,                          \* position in detect -> optimize -> plan
    media_duration,                 \* end of the last detected interval
    interval_list,                  \* Intervals._interval_list
    interval_list_without_breaks,   \* Intervals._interval_list_without_breaks
    short_interval_threshold,       \* argument of optimize
    stretch_time,                   \* argument of optimize
    silence_upper_threshold,        \* argument of optimize
    combine_input,                  \* _interval_list before the second Combine pass
    max_seconds_buffer,             \* local of _create_tasks
    max_group_size,                 \* FastMediaRenderer.max_group_size
    tasks,                          \* result of _create_tasks
    merge_stage,                    \* position in UnsilenceAndVad.detect_silence
    silence,                        \* timeline returned by detect_silence
    no_speech,                      \* timeline returned by detect_speech
    or_intervals,                   \* timeline returned by intervals_or
    intervals,                      \* timeline returned by intervals_collapse
    render_options,                 \* RenderOptions handed to _run_tasks
    total_tasks,                    \* len(tasks) in _run_tasks
    main_pc,                        \* position of the orchestrating thread in _run_tasks
    main_i,                         \* index of the orchestrator's current for loop
    main_completed,                 \* len(completed_tasks) as last read by the wait loop
    main_result,                    \* what _run_tasks returned, or the exception it raised
    thread_pc,                      \* position of each RenderIntervalThread
    thread_task,                    \* local "task" of each thread's _run
    thread_completed,               \* local "completed" of each thread's _run
    should_exit,                    \* RenderIntervalThread._should_exit
    thread_lock,                    \* holder of thread_lock, NoHolder when free
    task_queue,                     \* task_queue
    thread_exceptions,              \* thread_exceptions
    completed_tasks,                \* completed_tasks
    corrupted_intervals,            \* corrupted_intervals
    dequeues,                       \* history: times each task was taken from task_queue
    reports,                        \* history: times each task was handed to the callback
    rendered,                       \* history: tasks whose render and probe succeeded
    ffmpeg_result,                  \* history: how ffmpeg.execute() ended for each task
    filter_stage,                   \* position in IntervalRenderTask.create
    filter_interval,                \* the interval handed to IntervalRenderTask.create
    filter_options,                 \* speeds, minimum duration and fades of RenderOptions
    current_speed,                  \* current_speed of IntervalRenderTask.create
    fade,                           \* what get_fade_filter returned
    time_data,                      \* what calculate_time returned
    current_interval,               \* current_interval of detect_silence
    last_event,                     \* history: the last silencedetect line read
    events_read,                    \* history: number of silencedetect lines read
    first_event,                    \* history: the first silencedetect line read
    process_failed,                 \* history: ffmpeg ended with a failure
    speech_timestamps,              \* speech_timestamps of detect_speech, in samples
    no_speech_interval,             \* no_speech_interval of detect_speech
    speech_idx,                     \* history: speech ranges converted so far
    options_stage,                  \* position in RenderOptions(...)
    options_input,                  \* the field values handed to RenderOptions(...)
    options_result,                 \* how the construction of RenderOptions ended
    concat_stage,                   \* position in render after _run_tasks has returned
    total_files,                    \* len(file_list) in _concat_intervals
    has_concat_callback,            \* update_concat_progress is not None
    current_file,                   \* current_file of _concat_intervals
    lines_read,                     \* history: lines read from the concat process
    concat_failed,                  \* history: the concat ffmpeg process ended with a failure
    final_output,                   \* what is at the path final_output
    output_file,                    \* what is at the path output_file
    serialize_stage,                \* position in serialize -> deserialize
    serialized_obj,                 \* what Intervals.serialize returned
    deserialized,                   \* the Intervals that Intervals.deserialize returned
    action_stage,                   \* position in construct -> dump -> validate
    class_registry,                 \* the classes derived from Unsilence, in definition order
    unsilence_class,                \* UnsilenceAction.unsilence_class
    dumped_name,                    \* the unsilence_class entry of the dump
    validated,                      \* what validate_unsilence_class returned or raised
    retry_stage,                    \* "idle", "running", "finished", "reported" or "dead"
    retry_interval,                 \* the interval of the task taken from the queue
    retry_render_options,           \* drop_corrupted_intervals and check_intervals
    retry_executions,               \* outcomes of the ffmpeg.execute() calls made, in order
    retry_result,                   \* what __render_interval returned or raised
    retry_reported,                 \* what on_task_completed was told: "none", "completed", "corrupted"
    command_stage,                  \* "idle", "planned" or "generated"
    command_group,                  \* IntervalGroupRenderTask.interval_render_tasks, with the filters of each task
    command_render_options,         \* the RenderOptions fields generate_command reads
    separated_audio,                \* whether a separated audio file is given
    command,                        \* input and output options of the generated ffmpeg command
    video_status,                   \* ProcessedVideo.status in the database, "DELETED" when the row is gone
    video_file,                     \* whether ProcessedVideo.file is stored
    total_invocations,              \* process_video_task messages enqueued for the ProcessedVideo
    invocation_pc,                  \* position of each process_video invocation
    observed_status,                \* the status each invocation read in get_video_for_processing
    pipeline_runs,                  \* the invocations that ran run_video_processing
    pipeline_outcome,               \* how run_video_processing ended in each invocation
    upload_queue,                   \* the upload_video_task messages enqueued
    render_pc                       \* position of the first-generation MediaRenderer.render

intervalVars ==
    <<stage, media_duration, interval_list, interval_list_without_breaks,
      short_interval_threshold, stretch_time, silence_upper_threshold,
      combine_input, max_seconds_buffer, max_group_size, tasks>>

mergeVars == <<merge_stage, silence, no_speech, or_intervals, intervals>>

poolVars ==
    <<render_options, total_tasks, main_pc, main_i, main_completed, main_result,
      thread_pc, thread_task, thread_completed, should_exit, thread_lock, task_queue,
      thread_exceptions, completed_tasks, corrupted_intervals, dequeues, reports,
      rendered, ffmpeg_result>>

filterVars == <<filter_stage, filter_interval, filter_options, current_speed, fade>>

estimateVars == <<time_data>>

detectVars == <<current_interval, last_event, events_read, first_event, process_failed>>

speechVars == <<speech_timestamps, no_speech_interval, speech_idx>>

optionsVars == <<options_stage, options_input, options_result>>

concatVars == <<concat_stage, total_files, has_concat_callback, current_file, lines_read, concat_failed, final_output, output_file>>

serializeVars == <<serialize_stage, serialized_obj, deserialized>>

actionVars == <<action_stage, class_registry, unsilence_class, dumped_name, validated>>

retryVars == <<retry_stage, retry_interval, retry_render_options, retry_executions, retry_result, retry_reported>>

commandVars == <<command_stage, command_group, command_render_options, separated_audio, command>>

processVars == <<video_status, video_file, total_invocations, invocation_pc, observed_status, pipeline_runs, pipeline_outcome, upload_queue>>

renderVars == <<render_pc>>

vars == <<intervalVars, mergeVars, poolVars, filterVars, estimateVars, detectVars, speechVars, optionsVars, concatVars, serializeVars, actionVars, retryVars, commandVars, processVars, renderVars>>

\* ------------------------------------------------------------------------
\* RenderWorkerPool (libs/unsilence_fast/fast_media_renderer.py,
\*                   libs/unsilence_fast/fast_render_interval_thread.py)
\* ------------------------------------------------------------------------
MaxTasks == 2

\* thread_id of the spawned threads: range(render_threads).
ThreadIds == 0..(MaxThreads - 1)

\* The orchestrating thread, as a holder of thread_lock.
MainThread == MaxThreads

\* thread_lock is free.
NoHolder == -1

\* ThreadTask(task_id=i, output_file=temp_path / f"out_{i}{suffix}", ...): the
\* output file is named by the number in its name.
ThreadTask(i) == [task_id |-> i, output_file |-> i]

\* ffmpeg.execute() has not run for a task.
NotRun == [failed |-> FALSE, conversion_failed_last_line |-> FALSE,
           complex_filter_error |-> FALSE, executed |-> FALSE]

\* A thread that holds no task.
NoTask == [task_id |-> -1, output_file |-> -1]

\* render_threads = min(render_options.threads, len(tasks))
RenderThreads(options, n) == Min(options.threads, n)

\* How ffmpeg.execute() can end: normally, or with an FFmpegError whose
\* message has "Conversion failed!" in its last line or not, and contains
\* "Error initializing complex filter" or not.
FfmpegOutcomes ==
    { [failed |-> FALSE, conversion_failed_last_line |-> FALSE,
       complex_filter_error |-> FALSE] }
    \cup { [failed |-> TRUE, conversion_failed_last_line |-> c, complex_filter_error |-> f]
           : c \in BOOLEAN, f \in BOOLEAN }

\* RenderIntervalThread._render_interval from ffmpeg.execute() on: the value
\* returned, or the exception raised.
RenderInterval(outcome, options) ==
    IF ~outcome.failed THEN [raised |-> "none", completed |-> TRUE]
    ELSE IF outcome.conversion_failed_last_line THEN
        IF options.drop_corrupted_intervals
        THEN [raised |-> "none", completed |-> FALSE]
        ELSE [raised |-> "OSError: Input file is corrupted", completed |-> FALSE]
    ELSE IF outcome.complex_filter_error
    THEN [raised |-> "ValueError: Invalid render options", completed |-> FALSE]
    ELSE [raised |-> "ValueError: ffmpeg message", completed |-> FALSE]

\* Mutant: the head of the queue is read without being removed.
QueuePeek(queue) == [task |-> Head(queue), queue |-> queue]

\* task_queue.get() on a non-empty queue.
QueueGet(queue) == [task |-> Head(queue), queue |-> Tail(queue)]

\* Insertion of a task into a list sorted by task_id.
RECURSIVE InsertByTaskId(_, _)
InsertByTaskId(task, sorted) ==
    IF sorted = <<>> THEN <<task>>
    ELSE IF task.task_id < Head(sorted).task_id THEN <<task>> \o sorted
    ELSE <<Head(sorted)>> \o InsertByTaskId(task, Tail(sorted))

\* sorted(completed_tasks, key=lambda x: x.task_id): a stable sort.
RECURSIVE SortedByTaskId(_)
SortedByTaskId(list) ==
    IF list = <<>> THEN <<>>
    ELSE InsertByTaskId(list[Len(list)], SortedByTaskId(SubSeq(list, 1, Len(list) - 1)))

\* The polling loop left one batch early.
TasksPendingButOne(completed, corrupted, total) == completed < total - corrupted - 1

\* while len(completed_tasks) < (len(tasks) - len(corrupted_intervals)): the
\* test of the polling loop of _run_tasks, on the two lengths as read.
TasksPending(completed, corrupted, total) == completed < total - corrupted

\* Mutant: the completed tasks are returned in the order of completion.
CompletedFilesUnsorted(list) == [k \in 1..Len(list) |-> list[k].output_file]

\* [task.output_file for task in sorted(completed_tasks, key=lambda x: x.task_id)]
CompletedFiles(list) ==
    LET sorted == SortedByTaskId(list) IN [k \in 1..Len(sorted) |-> sorted[k].output_file]

\* No render is in progress.
PoolIdle ==
    /\ render_options = [threads |-> 1, drop_corrupted_intervals |-> FALSE,
                         check_intervals |-> FALSE]
    /\ total_tasks = 0
    /\ main_pc = "idle"
    /\ main_i = 0
    /\ main_completed = 0
    /\ main_result = [kind |-> "none", files |-> <<>>, error |-> "none"]
    /\ thread_pc = [t \in ThreadIds |-> "unstarted"]
    /\ thread_task = [t \in ThreadIds |-> NoTask]
    /\ thread_completed = [t \in ThreadIds |-> FALSE]
    /\ should_exit = [t \in ThreadIds |-> FALSE]
    /\ thread_lock = NoHolder
    /\ task_queue = <<>>
    /\ thread_exceptions = <<>>
    /\ completed_tasks = <<>>
    /\ corrupted_intervals = <<>>
    /\ dequeues = [i \in 0..(MaxTasks - 1) |-> 0]
    /\ reports = [i \in 0..(MaxTasks - 1) |-> 0]
    /\ rendered = {}
    /\ ffmpeg_result = [i \in 0..(MaxTasks - 1) |-> NotRun]

\* No interval is being given its filters.
EstimateIdle == time_data = NoTimeData

\* No silencedetect line has been read.
NoEvent == [event |-> "none", time |-> 0]

\* Latest timestamp of an interval handed to the first-generation worker.
MaxRetryTime == 2

\* The intervals a first-generation task can carry: they end no earlier than
\* they start.
RetryIntervals == { i \in [start : 0..MaxRetryTime, end : 0..MaxRetryTime] : i.start <= i.end }

\* No interval was rendered: neither a value returned nor an exception raised.
NoRetryResult == [raised |-> "none", completed |-> FALSE, start |-> 0, end |-> 0, executions |-> 0]

\* return True / return False of __render_interval after n executions.
RetryReturned(completed, n) == [raised |-> "none", completed |-> completed, start |-> 0, end |-> 0, executions |-> n]

\* raise ValueError("Invalid render options") when the message of the
\* FFmpegError contains "Error initializing complex filter", else
\* raise ValueError(f"{exc.message}: {exc.arguments}").
RaiseValueError(exc, n) == [raised |-> IF exc.complex_filter_error THEN "ValueError: Invalid render options" ELSE "ValueError: ffmpeg message", completed |-> FALSE, start |-> 0, end |-> 0, executions |-> n]

\* raise OSError(f"Input file is corrupted between {interval.start} and
\* {interval.end} (in seconds)").
RaiseCorrupted(interval, n) == [raised |-> "OSError: Input file is corrupted between", completed |-> FALSE, start |-> interval.start, end |-> interval.end, executions |-> n]

\* First-generation RenderIntervalThread.__render_interval from
\* ffmpeg.execute() on; outcomes are the outcomes of the successive
\* ffmpeg.execute() calls.  The value of the nested call without filters is
\* not used: when it returns, the handler of the first FFmpegError goes on to
\* the two raise statements below the "Conversion failed!" test.
RECURSIVE RenderIntervalWithRetry(_, _, _, _)
RenderIntervalWithRetry(outcomes, apply_filter, drop_corrupted_intervals, interval) ==
    LET exc == Head(outcomes) IN
    IF ~exc.failed THEN RetryReturned(TRUE, 1)
    ELSE IF exc.conversion_failed_last_line /\ drop_corrupted_intervals THEN RetryReturned(FALSE, 1)
    ELSE IF exc.conversion_failed_last_line /\ ~apply_filter THEN RaiseCorrupted(interval, 1)
    ELSE IF exc.conversion_failed_last_line
    THEN LET nested == RenderIntervalWithRetry(Tail(outcomes), FALSE, drop_corrupted_intervals, interval)
         IN IF nested.raised # "none"
            THEN [nested EXCEPT !.executions = @ + 1]
            ELSE RaiseValueError(exc, nested.executions + 1)
    ELSE RaiseValueError(exc, 1)

\* ------------------------------------------------------------------------
\* CommandBuilder (libs/unsilence_fast/fast_render_task.py)
\* ------------------------------------------------------------------------
MaxCommandIntervals == 2
MaxCommandTime == 2

\* video_filter / audio_filter = None
NoFilter == "None"

\* A stream label of a filter graph or of an output map: "[vf3]" is
\* Label("vf", 3); labels without a number have idx NoIdx.
NoIdx == -1

Label(name, idx) == [name |-> name, idx |-> idx]

\* IntervalRenderTask.create: the video filter is asked for only when not
\* audio_only and is None at speed 1; the audio filter is None when there is
\* neither a fade, nor a speed change, nor a volume change.
CreateWithFilters(interval, speed_changed, fade_or_volume, options) ==
    [interval |-> interval,
     video_filter |-> IF ~options.audio_only /\ speed_changed
                      THEN "setpts=PTS/speed" ELSE NoFilter,
     audio_filter |-> IF speed_changed \/ fade_or_volume
                      THEN "afade,atempo,volume" ELSE NoFilter]

\* audio_idx = 1 if separated_audio else 0, as the label of the audio input.
AudioInput(has_separated_audio) == Label(IF has_separated_audio THEN "1:a" ELSE "0:a", NoIdx)

\* One chain of a filter graph: input label, trim range (<<>> when the chain
\* does not trim), further filter, output label.
Chain(input, kind, range, filter, output) == [input |-> input, kind |-> kind, range |-> range, filter |-> filter, output |-> output]

\* No concat filter in the graph.
NoConcat == [inputs |-> <<>>, n |-> 0, outputs |-> <<>>]

\* Output options not set: no "c:v" / "c:a" key.
NotSet == "not set"

\* Mutant: the raw copy is chosen whenever no filter was produced, whatever
\* the allow_copy flags.
GenerateCommandForSingleIntervalAlwaysCopy(tasks_of_group, options, has_separated_audio) ==
    LET task == tasks_of_group[1]
        c_v == IF ~options.audio_only /\ task.video_filter = NoFilter THEN "copy" ELSE NotSet
        c_a == IF task.audio_filter = NoFilter THEN "copy" ELSE NotSet
    IN [input_options |-> [ss |-> task.interval.start, to |-> task.interval.end],
        chains |-> <<>>, concat |-> NoConcat,
        map |-> <<>>, vn |-> options.audio_only,
        c_v |-> c_v, c_a |-> c_a]

\* IntervalGroupRenderTask._generate_command_for_single_interval
GenerateCommandForSingleInterval(tasks_of_group, options, has_separated_audio) ==
    LET task == tasks_of_group[1]
        video_chain == IF task.video_filter # NoFilter
                       THEN <<Chain(Label("0:v", NoIdx), "filter", <<>>, task.video_filter, Label("v", NoIdx))>>
                       ELSE <<>>
        audio_chain == IF task.audio_filter # NoFilter
                       THEN <<Chain(AudioInput(has_separated_audio), "filter", <<>>, task.audio_filter, Label("a", NoIdx))>>
                       ELSE <<>>
        video_map == IF options.audio_only THEN <<>>
                     ELSE IF task.video_filter # NoFilter THEN <<Label("v", NoIdx)>>
                     ELSE <<Label("0:v", NoIdx)>>
        audio_map == IF task.audio_filter # NoFilter THEN <<Label("a", NoIdx)>>
                     ELSE <<AudioInput(has_separated_audio)>>
        copy_video == /\ ~options.audio_only
                      /\ task.video_filter = NoFilter
                      /\ options.allow_copy_video_stream
        copy_audio == task.audio_filter = NoFilter /\ options.allow_copy_audio_stream
        \* force_*_codec is used unless "copy" was chosen
        c_v == IF copy_video THEN "copy"
               ELSE IF options.force_video_codec # NoCodec
               THEN options.force_video_codec ELSE NotSet
        c_a == IF copy_audio THEN "copy"
               ELSE IF options.force_audio_codec # NoCodec
               THEN options.force_audio_codec ELSE NotSet
    IN [input_options |-> [ss |-> task.interval.start, to |-> task.interval.end],
        chains |-> video_chain \o audio_chain, concat |-> NoConcat,
        map |-> video_map \o audio_map, vn |-> options.audio_only,
        c_v |-> c_v, c_a |-> c_a]

\* The loop of _generate_command_for_multiple_interval: the trim chains of
\* the tasks from position k on (idx = k - 1).
RECURSIVE TrimFilters(_, _, _, _, _)
TrimFilters(tasks_of_group, k, start_timestamp, options, has_separated_audio) ==
    IF k > Len(tasks_of_group) THEN <<>>
    ELSE LET task == tasks_of_group[k]
             range == <<task.interval.start - start_timestamp, task.interval.end - start_timestamp>>
             video == IF ~options.audio_only
                      THEN <<Chain(Label("0:v", NoIdx), "trim", range, task.video_filter, Label("vf", k - 1))>>
                      ELSE <<>>
             audio == <<Chain(AudioInput(has_separated_audio), "atrim", range, task.audio_filter, Label("af", k - 1))>>
         IN video \o audio \o TrimFilters(tasks_of_group, k + 1, start_timestamp, options, has_separated_audio)

\* concat_input: "[vf0][af0][vf1][af1]..." for range(len(interval_render_tasks)).
RECURSIVE ConcatInput(_, _)
ConcatInput(idx, n) ==
    IF idx >= n THEN <<>>
    ELSE <<Label("vf", idx), Label("af", idx)>> \o ConcatInput(idx + 1, n)

\* IntervalGroupRenderTask._generate_command_for_multiple_interval
GenerateCommandForMultipleInterval(tasks_of_group, options, has_separated_audio) ==
    LET start_timestamp == tasks_of_group[1].interval.start
        end_timestamp == tasks_of_group[Len(tasks_of_group)].interval.end
    IN [input_options |-> [ss |-> start_timestamp, to |-> end_timestamp],
        chains |-> TrimFilters(tasks_of_group, 1, start_timestamp, options, has_separated_audio),
        concat |-> [inputs |-> ConcatInput(0, Len(tasks_of_group)), n |-> Len(tasks_of_group),
                    outputs |-> <<Label("v", NoIdx), Label("a", NoIdx)>>],
        map |-> <<Label("v", NoIdx), Label("a", NoIdx)>>, vn |-> options.audio_only,
        c_v |-> NotSet, c_a |-> NotSet]

\* IntervalGroupRenderTask.generate_command for a group with tasks: the
\* command of the single or of the multiple case, then force_video_codec and
\* force_audio_codec written over "c:v" and "c:a" when they are not None.
GenerateCommand(tasks_of_group, options, has_separated_audio) ==
    LET c == IF Len(tasks_of_group) = 1
             THEN GenerateCommandForSingleInterval(tasks_of_group, options, has_separated_audio)
             ELSE GenerateCommandForMultipleInterval(tasks_of_group, options, has_separated_audio)
    IN [c EXCEPT !.c_v = IF options.force_video_codec # NoCodec
                         THEN options.force_video_codec ELSE @,
                 !.c_a = IF options.force_audio_codec # NoCodec
                         THEN options.force_audio_codec ELSE @]

\* No command was generated.
NoCommand == [input_options |-> [ss |-> 0, to |-> 0], chains |-> <<>>, concat |-> NoConcat, map |-> <<>>, vn |-> FALSE, c_v |-> NotSet, c_a |-> NotSet]

\* The RenderOptions fields generate_command reads; the forced codecs are
\* None or the encoders the repository configures (configs.py).
CommandRenderOptions ==
    [audio_only : BOOLEAN, allow_copy_video_stream : BOOLEAN, allow_copy_audio_stream : BOOLEAN,
     force_video_codec : {NoCodec, "hevc"}, force_audio_codec : {NoCodec, "aac"}]

\* The intervals of a batch of the planner: in order, each of positive
\* duration, none starting before the one before it ends (a removed break
\* leaves a gap).
RECURSIVE CommandIntervalsFrom(_, _)
CommandIntervalsFrom(from, n) ==
    IF n = 0 THEN {<<>>}
    ELSE UNION { { <<Interval(a, b, is_silent)>> \o rest : rest \in CommandIntervalsFrom(b, n - 1), is_silent \in BOOLEAN }
                 : a \in from..MaxCommandTime, b \in (from + 1)..MaxCommandTime }

CommandIntervals ==
    { list \in UNION { CommandIntervalsFrom(0, n) : n \in 1..MaxCommandIntervals } :
        \A k \in 1..Len(list) : list[k].start < list[k].end }

\* No command is being generated.
CommandIdle ==
    /\ command_stage = "idle"
    /\ command_group = <<>>
    /\ command_render_options = [audio_only |-> FALSE, allow_copy_video_stream |-> FALSE, allow_copy_audio_stream |-> FALSE, force_video_codec |-> NoCodec, force_audio_codec |-> NoCodec]
    /\ separated_audio = FALSE
    /\ command = NoCommand

\* ------------------------------------------------------------------------
\* ProcessVideo (processing/processors/process.py)
\* ------------------------------------------------------------------------
MaxInvocations == 2

\* The process_video invocations, one for each process_video_task message.
Invocations == 0..(MaxInvocations - 1)

\* get_video_for_processing returns the ProcessedVideo, and not None, only in
\* the case ProcessedVideoStatus.TASK_CREATED of its match statement.
ProceedsWithVideo(status) == status = "TASK_CREATED"

\* How run_video_processing can end: normally, with ProcessingImpossibleError,
\* or with another exception.
PipelineOutcomes == {"processed", "impossible", "failed"}

\* No process_video invocation exists.
ProcessIdle ==
    /\ video_status = "none"
    /\ video_file = FALSE
    /\ total_invocations = 0
    /\ invocation_pc = [i \in Invocations |-> "idle"]
    /\ observed_status = [i \in Invocations |-> "none"]
    /\ pipeline_runs = {}
    /\ pipeline_outcome = [i \in Invocations |-> "none"]
    /\ upload_queue = <<>>

\* No first-generation MediaRenderer.render is running.
RenderIdle == render_pc = "idle"

\* No first-generation worker is rendering.
RetryIdle ==
    /\ retry_stage = "idle"
    /\ retry_interval = [start |-> 0, end |-> 0]
    /\ retry_render_options = [drop_corrupted_intervals |-> FALSE, check_intervals |-> FALSE]
    /\ retry_executions = <<>>
    /\ retry_result = NoRetryResult
    /\ retry_reported = "none"

\* No UnsilenceAction is being dumped or validated.
ActionIdle ==
    /\ action_stage = "idle"
    /\ class_registry = <<Class("Unsilence", NoClass)>>
    /\ unsilence_class = NoClass
    /\ dumped_name = ""
    /\ validated = [kind |-> "none", class |-> NoClass]

\* No timeline is being serialized.
SerializeIdle ==
    /\ serialize_stage = "idle"
    /\ serialized_obj = <<>>
    /\ deserialized = [interval_list |-> <<>>, interval_list_without_breaks |-> <<>>]

\* No render is concatenating.
ConcatIdle ==
    /\ concat_stage = "idle"
    /\ total_files = 0
    /\ has_concat_callback = FALSE
    /\ current_file = 0
    /\ lines_read = 0
    /\ concat_failed = FALSE
    /\ final_output = "absent"
    /\ output_file = "absent"

\* No RenderOptions is being constructed.
OptionsIdle ==
    /\ options_stage = "idle"
    /\ options_input = [use_nvenc |-> FALSE, force_video_codec |-> NoCodec, threads |-> 2]
    /\ options_result = [kind |-> "none", error |-> "none"]

\* detect_speech is not running.
SpeechIdle ==
    /\ speech_timestamps = <<>>
    /\ no_speech_interval = Interval(0, 0, TRUE)
    /\ speech_idx = 0

\* detect_silence is not running.
DetectIdle ==
    /\ current_interval = Interval(0, 0, FALSE)
    /\ last_event = NoEvent
    /\ events_read = 0
    /\ first_event = NoEvent
    /\ process_failed = FALSE

FilterIdle ==
    /\ filter_stage = "idle"
    /\ filter_interval = [duration |-> Ratio(0, 1), is_silent |-> FALSE]
    /\ filter_options = [audible_speed |-> Ratio(1, 1), silent_speed |-> Ratio(6, 1),
                         minimum_interval_duration |-> Ratio(1, 4),
                         interval_in_fade_duration |-> Ratio(1, 100),
                         interval_out_fade_duration |-> Ratio(1, 100)]
    /\ current_speed = Ratio(1, 1)
    /\ fade = GetFadeFilter(Ratio(0, 1), Ratio(0, 1), Ratio(0, 1), FALSE)

\* ------------------------------------------------------------------------
\* Detection, optimization and planning of one timeline
\* ------------------------------------------------------------------------

\* No merge is in progress.
MergeIdle ==
    /\ merge_stage = "idle"
    /\ silence = <<>>
    /\ no_speech = <<>>
    /\ or_intervals = <<>>
    /\ intervals = <<>>

\* Intervals.__init__ followed by the detector's add_interval calls:
\* _interval_list_without_breaks is the same list object as _interval_list.
InitIntervals ==
    /\ stage = "detected"
    /\ interval_list \in Timelines
    /\ interval_list_without_breaks = interval_list
    /\ media_duration = interval_list[Len(interval_list)].end
    /\ short_interval_threshold = 0
    /\ stretch_time = 0
    /\ silence_upper_threshold = NoThreshold
    /\ combine_input = <<>>
    /\ max_seconds_buffer = Ratio(0, 1)
    /\ max_group_size = 0
    /\ tasks = <<>>
    /\ MergeIdle
    /\ PoolIdle
    /\ FilterIdle
    /\ EstimateIdle
    /\ DetectIdle
    /\ SpeechIdle
    /\ OptionsIdle
    /\ ConcatIdle
    /\ SerializeIdle
    /\ ActionIdle
    /\ RetryIdle
    /\ CommandIdle
    /\ ProcessIdle
    /\ RenderIdle

\* optimize, first pass: self.__combine_intervals(short_interval_threshold).
\* _interval_list is rebound to a new list; _interval_list_without_breaks
\* keeps the old one.
Combine ==
    /\ stage = "detected"
    /\ \E threshold \in 0..MaxThreshold :
        /\ short_interval_threshold' = threshold
        /\ interval_list' = CombineIntervals(interval_list, threshold)
    /\ stage' = "combined"
    /\ UNCHANGED <<media_duration, interval_list_without_breaks, stretch_time,
                   silence_upper_threshold, combine_input, max_seconds_buffer,
                   max_group_size, tasks>>

\* A second Combine pass, with the same threshold, on the combined timeline.
CombineAgain ==
    /\ stage = "combined"
    /\ interval_list' = CombineIntervals(interval_list, short_interval_threshold)
    /\ combine_input' = interval_list
    /\ stage' = "recombined"
    /\ UNCHANGED <<media_duration, interval_list_without_breaks,
                   short_interval_threshold, stretch_time, silence_upper_threshold,
                   max_seconds_buffer, max_group_size, tasks>>

\* optimize, second pass: self.__enlarge_audible_intervals(stretch_time).
\* A ValueError leaves the intervals before the offending one stretched and
\* ends optimize.
Stretch ==
    /\ stage = "combined"
    /\ \E half \in 0..MaxStretchHalf :
        LET r == EnlargeAudibleIntervals(interval_list, 2 * half) IN
        /\ stretch_time' = 2 * half
        /\ interval_list' = r.list
        /\ stage' = IF r.raised THEN "ValueError" ELSE "stretched"
    /\ UNCHANGED <<media_duration, interval_list_without_breaks, short_interval_threshold,
                   silence_upper_threshold, combine_input,
                   max_seconds_buffer, max_group_size, tasks>>

\* optimize, third pass: self.__remove_breaks(silence_upper_threshold).
RemoveBreaksPass ==
    /\ stage = "stretched"
    /\ \E upper \in {NoThreshold} \cup 1..MaxUpperThreshold :
        /\ silence_upper_threshold' = upper
        /\ interval_list_without_breaks' = RemoveBreaks(interval_list, upper)
    /\ stage' = "optimized"
    /\ UNCHANGED <<media_duration, interval_list, short_interval_threshold, stretch_time,
                   combine_input, max_seconds_buffer, max_group_size, tasks>>

\* The values get_max_seconds_buffer can return for the render options, the
\* renderer's max_memory_usage_bytes and the input files of the model.
SecondsBuffers ==
    { GetMaxSecondsBuffer(input_file,
          GetMaxRamSizeFromConfig(max_memory_usage_bytes, use_nvenc, threads, total_vram))
      : input_file \in InputFiles,
        max_memory_usage_bytes \in {NoLimit} \cup {6 * k : k \in 0..MaxBudgetUnits},
        use_nvenc \in BOOLEAN, threads \in 1..MaxThreads, total_vram \in TotalVrams }

\* FastMediaRenderer._create_tasks on the optimized timeline.
Plan ==
    /\ stage = "optimized"
    /\ \E buffer \in SecondsBuffers, group_size \in 1..MaxGroupSize :
        /\ max_seconds_buffer' = buffer
        /\ max_group_size' = group_size
        /\ tasks' = CreateTasks(interval_list_without_breaks, buffer, group_size)
    /\ stage' = "planned"
    /\ UNCHANGED <<media_duration, interval_list, interval_list_without_breaks,
                   short_interval_threshold, stretch_time, silence_upper_threshold,
                   combine_input>>

NextIntervals ==
    \/ Combine /\ UNCHANGED <<mergeVars, poolVars, filterVars, estimateVars, detectVars, speechVars, optionsVars, concatVars, serializeVars, actionVars, retryVars, commandVars, processVars, renderVars>>
    \/ CombineAgain /\ UNCHANGED <<mergeVars, poolVars, filterVars, estimateVars, detectVars, speechVars, optionsVars, concatVars, serializeVars, actionVars, retryVars, commandVars, processVars, renderVars>>
    \/ Stretch /\ UNCHANGED <<mergeVars, poolVars, filterVars, estimateVars, detectVars, speechVars, optionsVars, concatVars, serializeVars, actionVars, retryVars, commandVars, processVars, renderVars>>
    \/ RemoveBreaksPass /\ UNCHANGED <<mergeVars, poolVars, filterVars, estimateVars, detectVars, speechVars, optionsVars, concatVars, serializeVars, actionVars, retryVars, commandVars, processVars, renderVars>>
    \/ Plan /\ UNCHANGED <<mergeVars, poolVars, filterVars, estimateVars, detectVars, speechVars, optionsVars, concatVars, serializeVars, actionVars, retryVars, commandVars, processVars, renderVars>>

SpecIntervals == InitIntervals /\ [][NextIntervals]_vars

\* ------------------------------------------------------------------------
\* Merging the timelines of the two detectors
\* ------------------------------------------------------------------------

\* No timeline is being optimized or planned.
IntervalsIdle ==
    /\ stage = "idle"
    /\ media_duration = 0
    /\ interval_list = <<>>
    /\ interval_list_without_breaks = <<>>
    /\ short_interval_threshold = 0
    /\ stretch_time = 0
    /\ silence_upper_threshold = NoThreshold
    /\ combine_input = <<>>
    /\ max_seconds_buffer = Ratio(0, 1)
    /\ max_group_size = 0
    /\ tasks = <<>>

\* UnsilenceAndVad.detect_silence after both detectors have returned.
InitMerge ==
    /\ merge_stage = "detected"
    /\ silence \in MergeTimelines
    /\ no_speech \in MergeTimelines
    /\ or_intervals = <<>>
    /\ intervals = <<>>
    /\ IntervalsIdle
    /\ PoolIdle
    /\ FilterIdle
    /\ EstimateIdle
    /\ DetectIdle
    /\ SpeechIdle
    /\ OptionsIdle
    /\ ConcatIdle
    /\ SerializeIdle
    /\ ActionIdle
    /\ RetryIdle
    /\ CommandIdle
    /\ ProcessIdle
    /\ RenderIdle

\* intervals = intervals_or(silence, no_speech)
Or ==
    /\ merge_stage = "detected"
    /\ or_intervals' = IntervalsOr(silence, no_speech)
    /\ merge_stage' = "or"
    /\ UNCHANGED <<silence, no_speech, intervals>>

\* intervals = intervals_collapse(intervals)
Collapse ==
    /\ merge_stage = "or"
    /\ intervals' = IntervalsCollapse(or_intervals)
    /\ merge_stage' = "collapsed"
    /\ UNCHANGED <<silence, no_speech, or_intervals>>

NextMerge ==
    \/ Or /\ UNCHANGED <<intervalVars, poolVars, filterVars, estimateVars, detectVars, speechVars, optionsVars, concatVars, serializeVars, actionVars, retryVars, commandVars, processVars, renderVars>>
    \/ Collapse /\ UNCHANGED <<intervalVars, poolVars, filterVars, estimateVars, detectVars, speechVars, optionsVars, concatVars, serializeVars, actionVars, retryVars, commandVars, processVars, renderVars>>

SpecMerge == InitMerge /\ [][NextMerge]_vars

\* ------------------------------------------------------------------------
\* FastMediaRenderer._run_tasks and its RenderIntervalThreads
\* ------------------------------------------------------------------------

\* _run_tasks is entered with len(tasks) batches and the render options.
InitPool ==
    /\ render_options \in [threads : 1..MaxThreads, drop_corrupted_intervals : BOOLEAN,
                           check_intervals : BOOLEAN]
    /\ total_tasks \in 0..MaxTasks
    /\ main_pc = "spawn"
    /\ main_i = 0
    /\ main_completed = 0
    /\ main_result = [kind |-> "none", files |-> <<>>, error |-> "none"]
    /\ thread_pc = [t \in ThreadIds |-> "unstarted"]
    /\ thread_task = [t \in ThreadIds |-> NoTask]
    /\ thread_completed = [t \in ThreadIds |-> FALSE]
    /\ should_exit = [t \in ThreadIds |-> FALSE]
    /\ thread_lock = NoHolder
    /\ task_queue = <<>>
    /\ thread_exceptions = <<>>
    /\ completed_tasks = <<>>
    /\ corrupted_intervals = <<>>
    /\ dequeues = [i \in 0..(MaxTasks - 1) |-> 0]
    /\ reports = [i \in 0..(MaxTasks - 1) |-> 0]
    /\ rendered = {}
    /\ ffmpeg_result = [i \in 0..(MaxTasks - 1) |-> NotRun]
    /\ IntervalsIdle
    /\ MergeIdle
    /\ FilterIdle
    /\ EstimateIdle
    /\ DetectIdle
    /\ SpeechIdle
    /\ OptionsIdle
    /\ ConcatIdle
    /\ SerializeIdle
    /\ ActionIdle
    /\ RetryIdle
    /\ CommandIdle
    /\ ProcessIdle
    /\ RenderIdle

\* for i in range(render_threads): thread = RenderIntervalThread(...); thread.start()
Spawn ==
    /\ main_pc = "spawn"
    /\ IF main_i < RenderThreads(render_options, total_tasks)
       THEN /\ thread_pc' = [thread_pc EXCEPT ![main_i] = "loop"]
            /\ main_i' = main_i + 1
            /\ main_pc' = main_pc
       ELSE /\ main_pc' = "enqueue"
            /\ main_i' = 0
            /\ thread_pc' = thread_pc
    /\ UNCHANGED <<render_options, total_tasks, main_completed, main_result, thread_task,
                   thread_completed, should_exit, thread_lock, task_queue,
                   thread_exceptions, completed_tasks, corrupted_intervals, dequeues,
                   reports, rendered, ffmpeg_result>>

\* for i, task in enumerate(tasks): ...; thread_lock.acquire()
Enqueue ==
    /\ main_pc = "enqueue"
    /\ IF main_i < total_tasks
       THEN /\ thread_lock = NoHolder
            /\ thread_lock' = MainThread
            /\ main_pc' = "put"
       ELSE /\ main_pc' = "wait"
            /\ thread_lock' = thread_lock
    /\ UNCHANGED <<render_options, total_tasks, main_i, main_completed, main_result,
                   thread_pc, thread_task, thread_completed, should_exit, task_queue,
                   thread_exceptions, completed_tasks, corrupted_intervals, dequeues,
                   reports, rendered, ffmpeg_result>>

\* task_queue.put(thread_task); thread_lock.release()
Put ==
    /\ main_pc = "put"
    /\ task_queue' = Append(task_queue, ThreadTask(main_i))
    /\ thread_lock' = NoHolder
    /\ main_i' = main_i + 1
    /\ main_pc' = "enqueue"
    /\ UNCHANGED <<render_options, total_tasks, main_completed, main_result, thread_pc,
                   thread_task, thread_completed, should_exit, thread_exceptions,
                   completed_tasks, corrupted_intervals, dequeues, reports, rendered, ffmpeg_result>>

\* while len(completed_tasks) < ...: the left operand is read first, without
\* the lock.
WaitReadCompleted ==
    /\ main_pc = "wait"
    /\ main_completed' = Len(completed_tasks)
    /\ main_pc' = "compare"
    /\ UNCHANGED <<render_options, total_tasks, main_i, main_result, thread_pc,
                   thread_task, thread_completed, should_exit, thread_lock, task_queue,
                   thread_exceptions, completed_tasks, corrupted_intervals, dequeues,
                   reports, rendered, ffmpeg_result>>

\* ... < (len(tasks) - len(corrupted_intervals)): the right operand is read,
\* the test decided, and the body of the loop run: sleep if thread_exceptions
\* is empty, else raise the first exception of a thread.
WaitCompare ==
    /\ main_pc = "compare"
    /\ IF TasksPending(main_completed, Len(corrupted_intervals), total_tasks)
       THEN IF thread_exceptions = <<>>
            THEN /\ main_pc' = "wait"
                 /\ UNCHANGED <<main_i, main_result, thread_exceptions>>
            ELSE /\ main_pc' = "raised"
                 /\ main_result' = [kind |-> "raised", files |-> <<>>,
                                    error |-> Head(thread_exceptions).error]
                 /\ thread_exceptions' = Tail(thread_exceptions)
                 /\ main_i' = main_i
       ELSE /\ main_pc' = "stop"
            /\ main_i' = 0
            /\ UNCHANGED <<main_result, thread_exceptions>>
    /\ UNCHANGED <<render_options, total_tasks, main_completed, thread_pc, thread_task,
                   thread_completed, should_exit, thread_lock, task_queue,
                   completed_tasks, corrupted_intervals, dequeues, reports, rendered, ffmpeg_result>>

\* for thread in thread_list: thread.stop()
Stop ==
    /\ main_pc = "stop"
    /\ IF main_i < RenderThreads(render_options, total_tasks)
       THEN /\ should_exit' = [should_exit EXCEPT ![main_i] = TRUE]
            /\ main_i' = main_i + 1
            /\ main_pc' = main_pc
       ELSE /\ main_pc' = "join"
            /\ main_i' = 0
            /\ should_exit' = should_exit
    /\ UNCHANGED <<render_options, total_tasks, main_completed, main_result, thread_pc,
                   thread_task, thread_completed, thread_lock, task_queue,
                   thread_exceptions, completed_tasks, corrupted_intervals, dequeues,
                   reports, rendered, ffmpeg_result>>

\* for thread in thread_list: thread.join(); then the return statement.
Join ==
    /\ main_pc = "join"
    /\ IF main_i < RenderThreads(render_options, total_tasks)
       THEN /\ thread_pc[main_i] \in {"exited", "failed"}
            /\ main_i' = main_i + 1
            /\ UNCHANGED <<main_pc, main_result>>
       ELSE /\ main_pc' = "returned"
            /\ main_result' = [kind |-> "returned", files |-> CompletedFiles(completed_tasks),
                               error |-> "none"]
            /\ main_i' = main_i
    /\ UNCHANGED <<render_options, total_tasks, main_completed, thread_pc, thread_task,
                   thread_completed, should_exit, thread_lock, task_queue,
                   thread_exceptions, completed_tasks, corrupted_intervals, dequeues,
                   reports, rendered, ffmpeg_result>>

\* RenderIntervalThread.run: while not self._should_exit
ThreadLoop(t) ==
    /\ thread_pc[t] = "loop"
    /\ thread_pc' = [thread_pc EXCEPT ![t] = IF should_exit[t] THEN "exited" ELSE "acquire"]
    /\ UNCHANGED <<render_options, total_tasks, main_pc, main_i, main_completed,
                   main_result, thread_task, thread_completed, should_exit, thread_lock,
                   task_queue, thread_exceptions, completed_tasks, corrupted_intervals,
                   dequeues, reports, rendered, ffmpeg_result>>

\* RenderIntervalThread._run: self.thread_lock.acquire()
ThreadAcquire(t) ==
    /\ thread_pc[t] = "acquire"
    /\ thread_lock = NoHolder
    /\ thread_lock' = t
    /\ thread_pc' = [thread_pc EXCEPT ![t] = "get"]
    /\ UNCHANGED <<render_options, total_tasks, main_pc, main_i, main_completed,
                   main_result, thread_task, thread_completed, should_exit, task_queue,
                   thread_exceptions, completed_tasks, corrupted_intervals, dequeues,
                   reports, rendered, ffmpeg_result>>

\* RenderIntervalThread._run, holding the lock: return if the queue is empty,
\* else take a task; the lock is released either way.
ThreadGet(t) ==
    /\ thread_pc[t] = "get"
    /\ thread_lock' = NoHolder
    /\ IF task_queue = <<>>
       THEN /\ thread_pc' = [thread_pc EXCEPT ![t] = "loop"]
            /\ UNCHANGED <<thread_task, task_queue, dequeues>>
       ELSE LET got == QueueGet(task_queue) IN
            /\ thread_task' = [thread_task EXCEPT ![t] = got.task]
            /\ task_queue' = got.queue
            /\ dequeues' = [dequeues EXCEPT ![got.task.task_id] = @ + 1]
            /\ thread_pc' = [thread_pc EXCEPT ![t] = "render"]
    /\ UNCHANGED <<render_options, total_tasks, main_pc, main_i, main_completed,
                   main_result, thread_completed, should_exit, thread_exceptions,
                   completed_tasks, corrupted_intervals, reports, rendered, ffmpeg_result>>

\* RenderIntervalThread._run: completed = self._render_interval(task), then the
\* ffprobe check of the output when check_intervals is set.  An exception
\* leaves _run; run puts it into thread_exceptions and returns.
ThreadRender(t) ==
    /\ thread_pc[t] = "render"
    /\ \E outcome \in FfmpegOutcomes, probe_returncode \in {0, 1} :
        LET r == RenderInterval(outcome, render_options)
            completed == IF r.completed /\ render_options.check_intervals
                         THEN probe_returncode = 0
                         ELSE r.completed
        IN /\ ffmpeg_result' = [ffmpeg_result EXCEPT ![thread_task[t].task_id] =
                                    [failed |-> outcome.failed,
                                     conversion_failed_last_line |->
                                        outcome.conversion_failed_last_line,
                                     complex_filter_error |-> outcome.complex_filter_error,
                                     executed |-> TRUE]]
           /\ IF r.raised # "none"
              THEN /\ thread_exceptions' =
                       Append(thread_exceptions,
                              [error |-> r.raised, task_id |-> thread_task[t].task_id])
                   /\ thread_pc' = [thread_pc EXCEPT ![t] = "failed"]
                   /\ UNCHANGED <<thread_completed, rendered>>
              ELSE /\ thread_completed' = [thread_completed EXCEPT ![t] = completed]
                   /\ rendered' = IF completed THEN rendered \cup {thread_task[t].task_id}
                                  ELSE rendered
                   /\ thread_pc' = [thread_pc EXCEPT ![t] = "report"]
                   /\ UNCHANGED thread_exceptions
    /\ UNCHANGED <<render_options, total_tasks, main_pc, main_i, main_completed,
                   main_result, thread_task, should_exit, thread_lock, task_queue,
                   completed_tasks, corrupted_intervals, dequeues, reports>>

\* The completion handler without its thread_lock.acquire().
ThreadReportWithoutLock(t) ==
    /\ thread_pc[t] = "report"
    /\ thread_pc' = [thread_pc EXCEPT ![t] = "append"]
    /\ UNCHANGED <<render_options, total_tasks, main_pc, main_i, main_completed,
                   main_result, thread_task, thread_completed, should_exit, thread_lock,
                   task_queue, thread_exceptions, completed_tasks, corrupted_intervals,
                   dequeues, reports, rendered, ffmpeg_result>>

\* handle_thread_completed_task: thread_lock.acquire()
ThreadReport(t) ==
    /\ thread_pc[t] = "report"
    /\ thread_lock = NoHolder
    /\ thread_lock' = t
    /\ thread_pc' = [thread_pc EXCEPT ![t] = "append"]
    /\ UNCHANGED <<render_options, total_tasks, main_pc, main_i, main_completed,
                   main_result, thread_task, thread_completed, should_exit, task_queue,
                   thread_exceptions, completed_tasks, corrupted_intervals, dequeues,
                   reports, rendered, ffmpeg_result>>

\* handle_thread_completed_task, holding the lock: the task is appended to
\* completed_tasks, and on_render_progress_update called, or appended to
\* corrupted_intervals; then the lock is released and _run returns to the
\* loop of run.  An exception of on_render_progress_update leaves the handler
\* before thread_lock.release(): run puts it into thread_exceptions and
\* returns, and the lock stays held.
ThreadAppend(t) ==
    /\ thread_pc[t] = "append"
    /\ reports' = [reports EXCEPT ![thread_task[t].task_id] = @ + 1]
    /\ IF thread_completed[t]
       THEN /\ completed_tasks' = Append(completed_tasks, thread_task[t])
            /\ UNCHANGED corrupted_intervals
            /\ \E callback_raises \in BOOLEAN :
                IF callback_raises
                THEN /\ thread_exceptions' =
                            Append(thread_exceptions,
                                   [error |-> "on_render_progress_update",
                                    task_id |-> thread_task[t].task_id])
                     /\ thread_pc' = [thread_pc EXCEPT ![t] = "failed"]
                     /\ UNCHANGED <<thread_lock, thread_task>>
                ELSE /\ thread_lock' = NoHolder
                     /\ thread_task' = [thread_task EXCEPT ![t] = NoTask]
                     /\ thread_pc' = [thread_pc EXCEPT ![t] = "loop"]
                     /\ UNCHANGED thread_exceptions
       ELSE /\ corrupted_intervals' = Append(corrupted_intervals, thread_task[t])
            /\ thread_lock' = NoHolder
            /\ thread_task' = [thread_task EXCEPT ![t] = NoTask]
            /\ thread_pc' = [thread_pc EXCEPT ![t] = "loop"]
            /\ UNCHANGED <<completed_tasks, thread_exceptions>>
    /\ UNCHANGED <<render_options, total_tasks, main_pc, main_i, main_completed,
                   main_result, thread_completed, should_exit, task_queue,
                   dequeues, rendered, ffmpeg_result>>

Main == Spawn \/ Enqueue \/ Put \/ WaitReadCompleted \/ WaitCompare \/ Stop \/ Join

Thread(t) ==
    \/ ThreadLoop(t)
    \/ ThreadAcquire(t)
    \/ ThreadGet(t)
    \/ ThreadRender(t)
    \/ ThreadReport(t)
    \/ ThreadAppend(t)

NextPool ==
    \/ Main /\ UNCHANGED <<intervalVars, mergeVars, filterVars, estimateVars, detectVars, speechVars, optionsVars, concatVars, serializeVars, actionVars, retryVars, commandVars, processVars, renderVars>>
    \/ \E t \in ThreadIds : Thread(t) /\ UNCHANGED <<intervalVars, mergeVars, filterVars, estimateVars, detectVars, speechVars, optionsVars, concatVars, serializeVars, actionVars, retryVars, commandVars, processVars, renderVars>>

SpecPool == InitPool /\ [][NextPool]_vars

\* The threads are scheduled fairly, and a thread that waits for thread_lock
\* gets it when the lock is released again and again.
FairPool == SF_poolVars(Main) /\ \A t \in ThreadIds : SF_poolVars(Thread(t))

SpecPoolFair == InitPool /\ [][NextPool]_vars /\ FairPool

\* ------------------------------------------------------------------------
\* IntervalRenderTask.create: the speed and the fades of one interval
\* ------------------------------------------------------------------------

\* IntervalRenderTask.create is entered with an interval and the options.
InitFilter ==
    /\ filter_stage = "create"
    /\ filter_interval \in [duration : FilterDurations, is_silent : BOOLEAN]
    /\ filter_options \in [audible_speed : AudibleSpeeds, silent_speed : SilentSpeeds,
                           minimum_interval_duration : MinimumIntervalDurations,
                           interval_in_fade_duration : FadeDurations,
                           interval_out_fade_duration : FadeDurations]
    /\ current_speed = Ratio(1, 1)
    /\ fade = GetFadeFilter(Ratio(0, 1), Ratio(0, 1), Ratio(0, 1), FALSE)
    /\ IntervalsIdle
    /\ MergeIdle
    /\ PoolIdle
    /\ EstimateIdle
    /\ DetectIdle
    /\ SpeechIdle
    /\ OptionsIdle
    /\ ConcatIdle
    /\ SerializeIdle
    /\ ActionIdle
    /\ RetryIdle
    /\ CommandIdle
    /\ ProcessIdle
    /\ RenderIdle

\* current_speed, current_volume = get_speed_and_volume(render_options, interval)
SpeedAndVolume ==
    /\ filter_stage = "create"
    /\ current_speed' = GetSpeedAndVolume(filter_options, filter_interval)
    /\ filter_stage' = "speed"
    /\ UNCHANGED <<filter_interval, filter_options, fade>>

\* fade = get_fade_filter(total_duration=interval.duration, ...)
FadeFilter ==
    /\ filter_stage = "speed"
    /\ \E tie_up \in BOOLEAN :
        fade' = GetFadeFilter(filter_interval.duration,
                              filter_options.interval_in_fade_duration,
                              filter_options.interval_out_fade_duration, tie_up)
    /\ filter_stage' = "fade"
    /\ UNCHANGED <<filter_interval, filter_options, current_speed>>

NextFilter ==
    \/ SpeedAndVolume /\ UNCHANGED <<intervalVars, mergeVars, poolVars, estimateVars, detectVars, speechVars, optionsVars, concatVars, serializeVars, actionVars, retryVars, commandVars, processVars, renderVars>>
    \/ FadeFilter /\ UNCHANGED <<intervalVars, mergeVars, poolVars, estimateVars, detectVars, speechVars, optionsVars, concatVars, serializeVars, actionVars, retryVars, commandVars, processVars, renderVars>>

SpecFilter == InitFilter /\ [][NextFilter]_vars

\* ------------------------------------------------------------------------
\* Unsilence.estimate_time: calculate_time on a detected or optimized timeline
\* ------------------------------------------------------------------------

\* The detector has returned a timeline; the speeds and the minimum duration
\* are those of the render options.
InitEstimate ==
    /\ stage = "detected"
    /\ interval_list \in EstimateTimelines
    /\ interval_list_without_breaks = interval_list
    /\ media_duration = interval_list[Len(interval_list)].end
    /\ short_interval_threshold = 0
    /\ stretch_time = 0
    /\ silence_upper_threshold = NoThreshold
    /\ combine_input = <<>>
    /\ max_seconds_buffer = Ratio(0, 1)
    /\ max_group_size = 0
    /\ tasks = <<>>
    /\ filter_stage = "idle"
    /\ filter_interval = [duration |-> Ratio(0, 1), is_silent |-> FALSE]
    /\ filter_options \in [audible_speed : EstimateAudibleSpeeds,
                           silent_speed : EstimateSilentSpeeds,
                           minimum_interval_duration : MinimumIntervalDurations,
                           interval_in_fade_duration : {Ratio(1, 100)},
                           interval_out_fade_duration : {Ratio(1, 100)}]
    /\ current_speed = Ratio(1, 1)
    /\ fade = GetFadeFilter(Ratio(0, 1), Ratio(0, 1), Ratio(0, 1), FALSE)
    /\ time_data = NoTimeData
    /\ MergeIdle
    /\ PoolIdle
    /\ DetectIdle
    /\ SpeechIdle
    /\ OptionsIdle
    /\ ConcatIdle
    /\ SerializeIdle
    /\ ActionIdle
    /\ RetryIdle
    /\ CommandIdle
    /\ ProcessIdle
    /\ RenderIdle

\* intervals.optimize(short_interval_threshold, stretch_time, silence_upper_threshold)
OptimizeCall ==
    /\ stage = "detected"
    /\ \E short_threshold \in EstimateShortThresholds, stretch \in EstimateStretchTimes, upper_threshold \in EstimateUpperThresholds :
        LET r == Optimize(interval_list, interval_list_without_breaks,
                          short_threshold, stretch, upper_threshold) IN
        /\ short_interval_threshold' = short_threshold
        /\ stretch_time' = stretch
        /\ silence_upper_threshold' = upper_threshold
        /\ interval_list' = r.list
        /\ interval_list_without_breaks' = r.list_without_breaks
        /\ stage' = IF r.raised THEN "ValueError" ELSE "optimized"
    /\ UNCHANGED <<media_duration, combine_input, max_seconds_buffer, max_group_size,
                   tasks, time_data>>

\* calculate_time(intervals, audible_speed, silent_speed, minimum_interval_duration)
EstimateTime ==
    /\ stage \in {"detected", "optimized"}
    /\ time_data' = CalculateTime(interval_list, interval_list_without_breaks,
                                  filter_options.audible_speed,
                                  filter_options.silent_speed,
                                  filter_options.minimum_interval_duration)
    /\ stage' = "estimated"
    /\ UNCHANGED <<media_duration, interval_list, interval_list_without_breaks,
                   short_interval_threshold, stretch_time, silence_upper_threshold,
                   combine_input, max_seconds_buffer, max_group_size, tasks>>

NextEstimate ==
    \/ OptimizeCall /\ UNCHANGED <<mergeVars, poolVars, filterVars, detectVars, speechVars, optionsVars, concatVars, serializeVars, actionVars, retryVars, commandVars, processVars, renderVars>>
    \/ EstimateTime /\ UNCHANGED <<mergeVars, poolVars, filterVars, detectVars, speechVars, optionsVars, concatVars, serializeVars, actionVars, retryVars, commandVars, processVars, renderVars>>

SpecEstimate == InitEstimate /\ [][NextEstimate]_vars

\* ------------------------------------------------------------------------
\* detect_silence: the timeline built from the lines ffmpeg prints
\* ------------------------------------------------------------------------

\* Lines 54-56: nothing has been read from ffmpeg.  The progress callback
\* is None.
InitDetect ==
    /\ stage = "detecting"
    /\ media_duration = NoDuration
    /\ interval_list = <<>>
    /\ interval_list_without_breaks = <<>>
    /\ short_interval_threshold = 0
    /\ stretch_time = 0
    /\ silence_upper_threshold = NoThreshold
    /\ combine_input = <<>>
    /\ max_seconds_buffer = Ratio(0, 1)
    /\ max_group_size = 0
    /\ tasks = <<>>
    /\ current_interval = Interval(0, 0, FALSE)
    /\ last_event = NoEvent
    /\ events_read = 0
    /\ first_event = NoEvent
    /\ process_failed = FALSE
    /\ MergeIdle
    /\ PoolIdle
    /\ FilterIdle
    /\ EstimateIdle
    /\ SpeechIdle
    /\ OptionsIdle
    /\ ConcatIdle
    /\ SerializeIdle
    /\ ActionIdle
    /\ RetryIdle
    /\ CommandIdle
    /\ ProcessIdle
    /\ RenderIdle

\* The "Duration: hh:mm:ss.cc" line of the input's header, lines 81-87.
\* ffmpeg prints it once, before the first silencedetect line, in
\* hundredths of a second; the silencedetect timestamps that follow are
\* printed with more digits and are not bounded by it.
DurationLine(duration) ==
    /\ stage = "detecting"
    /\ media_duration = NoDuration
    /\ events_read = 0
    /\ media_duration' = duration
    /\ UNCHANGED <<stage, interval_list, interval_list_without_breaks,
                   short_interval_threshold, stretch_time, silence_upper_threshold,
                   combine_input, max_seconds_buffer, max_group_size, tasks,
                   current_interval, last_event, events_read, first_event,
                   process_failed>>

\* The timestamps a silencedetect line can carry after the lines read so
\* far: not before the last one.
NextTimes ==
    IF last_event = NoEvent THEN MinTimestamp..MaxMediaDuration
    ELSE last_event.time..MaxMediaDuration

\* A "silence_start: time" line, lines 70-74.  The silencedetect filter
\* reports a start first and then ends and starts in turn.
SilenceStart(time) ==
    /\ stage = "detecting"
    /\ events_read < MaxEvents
    /\ last_event.event \in {"none", "end"}
    /\ time \in NextTimes
    /\ interval_list' = IF current_interval.start # time
                        THEN Append(interval_list, SetEnd(current_interval, time))
                        ELSE interval_list
    /\ interval_list_without_breaks' = interval_list'
    /\ current_interval' = Interval(time, 0, TRUE)
    /\ last_event' = [event |-> "start", time |-> time]
    /\ first_event' = IF first_event = NoEvent THEN last_event' ELSE first_event
    /\ events_read' = events_read + 1
    /\ UNCHANGED <<stage, media_duration, short_interval_threshold, stretch_time,
                   silence_upper_threshold, combine_input, max_seconds_buffer,
                   max_group_size, tasks, process_failed>>

\* A "silence_end: time" line, lines 76-79.
SilenceEnd(time) ==
    /\ stage = "detecting"
    /\ events_read < MaxEvents
    /\ last_event.event = "start"
    /\ time \in NextTimes
    /\ interval_list' = Append(interval_list, SetEnd(current_interval, time))
    /\ interval_list_without_breaks' = interval_list'
    /\ current_interval' = Interval(time, 0, FALSE)
    /\ last_event' = [event |-> "end", time |-> time]
    /\ events_read' = events_read + 1
    /\ UNCHANGED <<stage, media_duration, short_interval_threshold, stretch_time,
                   silence_upper_threshold, combine_input, max_seconds_buffer,
                   max_group_size, tasks, first_event, process_failed>>

\* The output of ffmpeg ends, lines 89-95: the for loop is left when the
\* pipe is closed, whether ffmpeg has finished or has failed; the exit
\* status is not read.  With media_duration None the end setter computes
\* None - start and raises TypeError.
EndOfOutput(failed) ==
    /\ stage = "detecting"
    /\ process_failed' = failed
    /\ IF media_duration = NoDuration
       THEN /\ stage' = "TypeError"
            /\ UNCHANGED <<current_interval, interval_list, interval_list_without_breaks>>
       ELSE /\ current_interval' = SetEnd(current_interval, media_duration)
            /\ interval_list' = Append(interval_list, current_interval')
            /\ interval_list_without_breaks' = interval_list'
            /\ stage' = "detected"
    /\ UNCHANGED <<media_duration, short_interval_threshold, stretch_time,
                   silence_upper_threshold, combine_input, max_seconds_buffer,
                   max_group_size, tasks, last_event, events_read, first_event>>

NextDetect ==
    \/ \E duration \in 1..MaxMediaDuration : DurationLine(duration) /\ UNCHANGED <<mergeVars, poolVars, filterVars, estimateVars, speechVars, optionsVars, concatVars, serializeVars, actionVars, retryVars, commandVars, processVars, renderVars>>
    \/ \E time \in MinTimestamp..MaxMediaDuration : SilenceStart(time) /\ UNCHANGED <<mergeVars, poolVars, filterVars, estimateVars, speechVars, optionsVars, concatVars, serializeVars, actionVars, retryVars, commandVars, processVars, renderVars>>
    \/ \E time \in MinTimestamp..MaxMediaDuration : SilenceEnd(time) /\ UNCHANGED <<mergeVars, poolVars, filterVars, estimateVars, speechVars, optionsVars, concatVars, serializeVars, actionVars, retryVars, commandVars, processVars, renderVars>>
    \/ \E failed \in BOOLEAN : EndOfOutput(failed) /\ UNCHANGED <<mergeVars, poolVars, filterVars, estimateVars, speechVars, optionsVars, concatVars, serializeVars, actionVars, retryVars, commandVars, processVars, renderVars>>

SpecDetect == InitDetect /\ [][NextDetect]_vars

\* ------------------------------------------------------------------------
\* detect_speech: the timeline built from the speech ranges
\* ------------------------------------------------------------------------

\* Lines 37-38, 48-61 and 64-71: the recording has been read, the model has
\* returned the speech ranges, and the conversion starts.
InitSpeech ==
    /\ stage = "converting"
    /\ media_duration \in 0..MaxSamples
    /\ speech_timestamps \in SpeechTimestamps(media_duration)
    /\ no_speech_interval = Interval(0, 0, TRUE)
    /\ speech_idx = 0
    /\ interval_list = <<>>
    /\ interval_list_without_breaks = <<>>
    /\ short_interval_threshold = 0
    /\ stretch_time = 0
    /\ silence_upper_threshold = NoThreshold
    /\ combine_input = <<>>
    /\ max_seconds_buffer = Ratio(0, 1)
    /\ max_group_size = 0
    /\ tasks = <<>>
    /\ MergeIdle
    /\ PoolIdle
    /\ FilterIdle
    /\ EstimateIdle
    /\ DetectIdle
    /\ OptionsIdle
    /\ ConcatIdle
    /\ SerializeIdle
    /\ ActionIdle
    /\ RetryIdle
    /\ CommandIdle
    /\ ProcessIdle
    /\ RenderIdle

\* One pass of "for interval in speech_timestamps".
ConvertRange ==
    /\ stage = "converting"
    /\ speech_idx < Len(speech_timestamps)
    /\ LET r == ConvertSpeechRange(interval_list, no_speech_interval,
                                   speech_timestamps[speech_idx + 1]) IN
        /\ interval_list' = r.list
        /\ interval_list_without_breaks' = r.list
        /\ no_speech_interval' = r.no_speech_interval
    /\ speech_idx' = speech_idx + 1
    /\ UNCHANGED <<stage, media_duration, short_interval_threshold, stretch_time,
                   silence_upper_threshold, combine_input, max_seconds_buffer,
                   max_group_size, tasks, speech_timestamps>>

\* The loop is over: lines 88-97.
CloseSpeech ==
    /\ stage = "converting"
    /\ speech_idx = Len(speech_timestamps)
    /\ LET r == CloseSpeechTimeline(interval_list, no_speech_interval, media_duration) IN
        /\ interval_list' = r.list
        /\ interval_list_without_breaks' = r.list
        /\ no_speech_interval' = r.no_speech_interval
    /\ stage' = "detected"
    /\ UNCHANGED <<media_duration, short_interval_threshold, stretch_time,
                   silence_upper_threshold, combine_input, max_seconds_buffer,
                   max_group_size, tasks, speech_timestamps, speech_idx>>

NextSpeech ==
    \/ ConvertRange /\ UNCHANGED <<mergeVars, poolVars, filterVars, estimateVars, detectVars, optionsVars, concatVars, serializeVars, actionVars, retryVars, commandVars, processVars, renderVars>>
    \/ CloseSpeech /\ UNCHANGED <<mergeVars, poolVars, filterVars, estimateVars, detectVars, optionsVars, concatVars, serializeVars, actionVars, retryVars, commandVars, processVars, renderVars>>

SpecSpeech == InitSpeech /\ [][NextSpeech]_vars

\* ------------------------------------------------------------------------
\* Construction of RenderOptions
\* ------------------------------------------------------------------------

\* RenderOptions(use_nvenc=..., force_video_codec=..., threads=...) is called.
InitOptions ==
    /\ options_stage = "called"
    /\ options_input \in [use_nvenc : BOOLEAN, force_video_codec : VideoCodecs,
                          threads : 0..MaxOptionThreads]
    /\ options_result = [kind |-> "none", error |-> "none"]
    /\ IntervalsIdle
    /\ MergeIdle
    /\ PoolIdle
    /\ FilterIdle
    /\ EstimateIdle
    /\ DetectIdle
    /\ SpeechIdle
    /\ ConcatIdle
    /\ SerializeIdle
    /\ ActionIdle
    /\ RetryIdle
    /\ CommandIdle
    /\ ProcessIdle
    /\ RenderIdle

\* The construction returns or raises.
Construct ==
    /\ options_stage = "called"
    /\ options_result' = ConstructRenderOptions(options_input)
    /\ options_stage' = "done"
    /\ UNCHANGED options_input

NextOptions ==
    \/ Construct /\ UNCHANGED <<intervalVars, mergeVars, poolVars, filterVars, estimateVars, detectVars, speechVars, concatVars, serializeVars, actionVars, retryVars, commandVars, processVars, renderVars>>

SpecOptions == InitOptions /\ [][NextOptions]_vars

\* ------------------------------------------------------------------------
\* FastMediaRenderer.render after _run_tasks: concatenate, then move
\* ------------------------------------------------------------------------

\* _run_tasks has returned completed_file_list; output_file may hold an
\* earlier file.
InitConcat ==
    /\ concat_stage = "rendered"
    /\ total_files \in 0..MaxConcatFiles
    /\ has_concat_callback \in BOOLEAN
    /\ current_file = 0
    /\ lines_read = 0
    /\ concat_failed = FALSE
    /\ final_output = "absent"
    /\ output_file \in {"absent", "earlier file"}
    /\ IntervalsIdle
    /\ MergeIdle
    /\ PoolIdle
    /\ FilterIdle
    /\ EstimateIdle
    /\ DetectIdle
    /\ SpeechIdle
    /\ OptionsIdle
    /\ SerializeIdle
    /\ ActionIdle
    /\ RetryIdle
    /\ CommandIdle
    /\ ProcessIdle
    /\ RenderIdle

\* concat_media_files: the list is written and ffmpeg is started with
\* subprocess.Popen, which raises when ffmpeg cannot be started.
StartConcat(started) ==
    /\ concat_stage = "rendered"
    /\ concat_stage' = IF started THEN "reading" ELSE "raised"
    /\ concat_failed' = ~started
    /\ UNCHANGED <<total_files, has_concat_callback, current_file, lines_read,
                   final_output, output_file>>

\* One pass of "for line in console_output.stdout", lines 176-179.  ffmpeg
\* opens its output file once it has read the concat list.
ReadConcatLine(auto_inserting) ==
    /\ concat_stage = "reading"
    /\ lines_read < MaxConcatLines
    /\ lines_read' = lines_read + 1
    /\ current_file' = IF auto_inserting /\ has_concat_callback
                       THEN current_file + 1 ELSE current_file
    /\ final_output' \in {final_output, "partial file"}
    /\ UNCHANGED <<concat_stage, total_files, has_concat_callback, concat_failed,
                   output_file>>

\* The pipe is closed and the loop is left; _concat_intervals returns
\* without waiting for the process or reading its exit status.  A process
\* that has succeeded has written final_output; one that has failed leaves
\* what it had written.
EndOfConcatOutput(failed) ==
    /\ concat_stage = "reading"
    /\ concat_failed' = failed
    /\ final_output' = IF failed THEN final_output ELSE "concatenated file"
    /\ concat_stage' = "concatenated"
    /\ UNCHANGED <<total_files, has_concat_callback, current_file, lines_read,
                   output_file>>

\* shutil.move(final_output, output_file) and the return of render.
MoveOutput ==
    /\ concat_stage = "concatenated"
    /\ IF final_output = "absent"
       THEN /\ concat_stage' = "raised"
            /\ UNCHANGED <<final_output, output_file>>
       ELSE /\ output_file' = final_output
            /\ final_output' = "absent"
            /\ concat_stage' = "returned"
    /\ UNCHANGED <<total_files, has_concat_callback, current_file, lines_read,
                   concat_failed>>

NextConcat ==
    \/ \E started \in BOOLEAN : StartConcat(started) /\ UNCHANGED <<intervalVars, mergeVars, poolVars, filterVars, estimateVars, detectVars, speechVars, optionsVars, serializeVars, actionVars, retryVars, commandVars, processVars, renderVars>>
    \/ \E auto_inserting \in BOOLEAN : ReadConcatLine(auto_inserting) /\ UNCHANGED <<intervalVars, mergeVars, poolVars, filterVars, estimateVars, detectVars, speechVars, optionsVars, serializeVars, actionVars, retryVars, commandVars, processVars, renderVars>>
    \/ \E failed \in BOOLEAN : EndOfConcatOutput(failed) /\ UNCHANGED <<intervalVars, mergeVars, poolVars, filterVars, estimateVars, detectVars, speechVars, optionsVars, serializeVars, actionVars, retryVars, commandVars, processVars, renderVars>>
    \/ MoveOutput /\ UNCHANGED <<intervalVars, mergeVars, poolVars, filterVars, estimateVars, detectVars, speechVars, optionsVars, serializeVars, actionVars, retryVars, commandVars, processVars, renderVars>>

SpecConcat == InitConcat /\ [][NextConcat]_vars

\* ------------------------------------------------------------------------
\* Intervals.serialize followed by Intervals.deserialize
\* ------------------------------------------------------------------------

\* A timeline as the detectors build it, with the without-breaks view that
\* __remove_breaks has left for some threshold.
InitSerialize ==
    /\ serialize_stage = "timeline"
    /\ serialized_obj = <<>>
    /\ deserialized = [interval_list |-> <<>>, interval_list_without_breaks |-> <<>>]
    /\ stage = "optimized"
    /\ interval_list \in Timelines
    /\ silence_upper_threshold \in {NoThreshold} \cup 1..MaxUpperThreshold
    /\ interval_list_without_breaks = RemoveBreaks(interval_list, silence_upper_threshold)
    /\ media_duration = interval_list[Len(interval_list)].end
    /\ short_interval_threshold = 0
    /\ stretch_time = 0
    /\ combine_input = <<>>
    /\ max_seconds_buffer = Ratio(0, 1)
    /\ max_group_size = 0
    /\ tasks = <<>>
    /\ MergeIdle
    /\ PoolIdle
    /\ FilterIdle
    /\ EstimateIdle
    /\ DetectIdle
    /\ SpeechIdle
    /\ OptionsIdle
    /\ ConcatIdle
    /\ ActionIdle
    /\ RetryIdle
    /\ CommandIdle
    /\ ProcessIdle
    /\ RenderIdle

\* serialized_obj = intervals.serialize()
SerializeCall ==
    /\ serialize_stage = "timeline"
    /\ serialized_obj' = Serialize(interval_list, interval_list_without_breaks)
    /\ serialize_stage' = "serialized"
    /\ UNCHANGED <<deserialized, intervalVars>>

\* Intervals.deserialize(serialized_obj)
DeserializeCall ==
    /\ serialize_stage = "serialized"
    /\ deserialized' = Deserialize(serialized_obj)
    /\ serialize_stage' = "deserialized"
    /\ UNCHANGED <<serialized_obj, intervalVars>>

NextSerialize ==
    \/ SerializeCall /\ UNCHANGED <<mergeVars, poolVars, filterVars, estimateVars, detectVars, speechVars, optionsVars, concatVars, actionVars, retryVars, commandVars, processVars, renderVars>>
    \/ DeserializeCall /\ UNCHANGED <<mergeVars, poolVars, filterVars, estimateVars, detectVars, speechVars, optionsVars, concatVars, actionVars, retryVars, commandVars, processVars, renderVars>>

SpecSerialize == InitSerialize /\ [][NextSerialize]_vars

\* ------------------------------------------------------------------------
\* UnsilenceAction: model_dump_json and model_validate_json
\* ------------------------------------------------------------------------

\* Either an action has been constructed with a class (lines 54-56), or a
\* dump that carries some name is about to be validated.
InitAction ==
    /\ class_registry \in ClassRegistries
    /\ \/ /\ action_stage = "constructed"
          /\ unsilence_class \in 1..Len(class_registry)
          /\ dumped_name = ""
       \/ /\ action_stage = "dumped"
          /\ unsilence_class = NoClass
          /\ dumped_name \in ForeignNames \cup { class_registry[c].name : c \in 1..Len(class_registry) }
    /\ validated = [kind |-> "none", class |-> NoClass]
    /\ IntervalsIdle
    /\ MergeIdle
    /\ PoolIdle
    /\ FilterIdle
    /\ EstimateIdle
    /\ DetectIdle
    /\ SpeechIdle
    /\ OptionsIdle
    /\ ConcatIdle
    /\ SerializeIdle
    /\ RetryIdle
    /\ CommandIdle
    /\ ProcessIdle
    /\ RenderIdle

\* action.model_dump_json(): the field serializer writes the class name.
Dump ==
    /\ action_stage = "constructed"
    /\ dumped_name' = SerializeUnsilenceClass(class_registry, unsilence_class)
    /\ action_stage' = "dumped"
    /\ UNCHANGED <<class_registry, unsilence_class, validated>>

\* UnsilenceAction.model_validate_json(dumped): the field validator gets
\* the name.
Validate ==
    /\ action_stage = "dumped"
    /\ validated' = ValidateUnsilenceClass(class_registry, dumped_name)
    /\ action_stage' = "validated"
    /\ UNCHANGED <<class_registry, unsilence_class, dumped_name>>

NextAction ==
    \/ Dump /\ UNCHANGED <<intervalVars, mergeVars, poolVars, filterVars, estimateVars, detectVars, speechVars, optionsVars, concatVars, serializeVars, retryVars, commandVars, processVars, renderVars>>
    \/ Validate /\ UNCHANGED <<intervalVars, mergeVars, poolVars, filterVars, estimateVars, detectVars, speechVars, optionsVars, concatVars, serializeVars, retryVars, commandVars, processVars, renderVars>>

SpecAction == InitAction /\ [][NextAction]_vars

\* ------------------------------------------------------------------------
\* The first-generation render worker on one task (SpecRetry)
\* ------------------------------------------------------------------------

\* The worker has taken a task from the queue and released the lock.
InitRetry ==
    /\ retry_stage = "running"
    /\ retry_interval \in RetryIntervals
    /\ retry_render_options \in [drop_corrupted_intervals : BOOLEAN, check_intervals : BOOLEAN]
    /\ retry_executions = <<>>
    /\ retry_result = NoRetryResult
    /\ retry_reported = "none"
    /\ IntervalsIdle
    /\ MergeIdle
    /\ PoolIdle
    /\ FilterIdle
    /\ EstimateIdle
    /\ DetectIdle
    /\ SpeechIdle
    /\ OptionsIdle
    /\ ConcatIdle
    /\ SerializeIdle
    /\ ActionIdle
    /\ CommandIdle
    /\ ProcessIdle
    /\ RenderIdle

\* run: completed = self.__render_interval(...), with filters; the filtered
\* transcode and, when it is made, the transcode without filters end in any
\* of the ways ffmpeg.execute() can end.
RenderWithRetry ==
    /\ retry_stage = "running"
    /\ \E first \in FfmpegOutcomes, second \in FfmpegOutcomes :
        LET result == RenderIntervalWithRetry(<<first, second>>, TRUE, retry_render_options.drop_corrupted_intervals, retry_interval)
        IN /\ retry_result' = result
           /\ retry_executions' = SubSeq(<<first, second>>, 1, result.executions)
    /\ retry_stage' = "finished"
    /\ UNCHANGED <<retry_interval, retry_render_options, retry_reported>>

\* run: the ffprobe check of the output when check_intervals is set, then
\* self._on_task_completed(task, not completed).
TaskCompleted ==
    /\ retry_stage = "finished"
    /\ retry_result.raised = "none"
    /\ \E probe_returncode \in {0, 1} :
        LET completed == IF retry_result.completed /\ retry_render_options.check_intervals
                         THEN probe_returncode = 0
                         ELSE retry_result.completed
        IN retry_reported' = IF completed THEN "completed" ELSE "corrupted"
    /\ retry_stage' = "reported"
    /\ UNCHANGED <<retry_interval, retry_render_options, retry_executions, retry_result>>

\* run has no handler: an exception of __render_interval ends the thread, and
\* on_task_completed is not called for the task.
ThreadDies ==
    /\ retry_stage = "finished"
    /\ retry_result.raised # "none"
    /\ retry_stage' = "dead"
    /\ UNCHANGED <<retry_interval, retry_render_options, retry_executions, retry_result, retry_reported>>

NextRetry ==
    \/ RenderWithRetry /\ UNCHANGED <<intervalVars, mergeVars, poolVars, filterVars, estimateVars, detectVars, speechVars, optionsVars, concatVars, serializeVars, actionVars, commandVars, processVars, renderVars>>
    \/ TaskCompleted /\ UNCHANGED <<intervalVars, mergeVars, poolVars, filterVars, estimateVars, detectVars, speechVars, optionsVars, concatVars, serializeVars, actionVars, commandVars, processVars, renderVars>>
    \/ ThreadDies /\ UNCHANGED <<intervalVars, mergeVars, poolVars, filterVars, estimateVars, detectVars, speechVars, optionsVars, concatVars, serializeVars, actionVars, commandVars, processVars, renderVars>>

SpecRetry == InitRetry /\ [][NextRetry]_vars

\* ------------------------------------------------------------------------
\* The first-generation MediaRenderer.render and its worker (SpecRender)
\* ------------------------------------------------------------------------

\* render has spawned the worker and put the task of the interval in the
\* queue; it is at the test of its while loop.
InitRender ==
    /\ render_pc = "waiting"
    /\ retry_stage = "running"
    /\ retry_interval \in RetryIntervals
    /\ retry_render_options \in [drop_corrupted_intervals : BOOLEAN, check_intervals : BOOLEAN]
    /\ retry_executions = <<>>
    /\ retry_result = NoRetryResult
    /\ retry_reported = "none"
    /\ IntervalsIdle
    /\ MergeIdle
    /\ PoolIdle
    /\ FilterIdle
    /\ EstimateIdle
    /\ DetectIdle
    /\ SpeechIdle
    /\ OptionsIdle
    /\ ConcatIdle
    /\ SerializeIdle
    /\ ActionIdle
    /\ CommandIdle
    /\ ProcessIdle

\* handle_thread_completed_task appended the task to completed_tasks.
LenCompletedTasks == IF retry_reported = "completed" THEN 1 ELSE 0

\* handle_thread_completed_task appended the task to corrupted_intervals.
LenCorruptedIntervals == IF retry_reported = "corrupted" THEN 1 ELSE 0

\* render: while len(completed_tasks) < (len(intervals.intervals) -
\* len(corrupted_intervals)), for the one interval of the timeline.
StillWaiting == LenCompletedTasks < 1 - LenCorruptedIntervals

\* render: the test of the while loop.
TestCompleted ==
    /\ render_pc = "waiting"
    /\ render_pc' = IF StillWaiting THEN "sleeping" ELSE "stopping"
    /\ UNCHANGED retryVars

\* render: time.sleep(0.5) in the loop.
Sleep ==
    /\ render_pc = "sleeping"
    /\ render_pc' = "waiting"
    /\ UNCHANGED retryVars

\* render after the loop: thread.stop() for every worker, the concatenation
\* of the completed files, and the return.
StopAndConcat ==
    /\ render_pc = "stopping"
    /\ render_pc' = "returned"
    /\ UNCHANGED retryVars

NextRender ==
    \/ RenderWithRetry /\ UNCHANGED <<intervalVars, mergeVars, poolVars, filterVars, estimateVars, detectVars, speechVars, optionsVars, concatVars, serializeVars, actionVars, commandVars, processVars, renderVars>>
    \/ TaskCompleted /\ UNCHANGED <<intervalVars, mergeVars, poolVars, filterVars, estimateVars, detectVars, speechVars, optionsVars, concatVars, serializeVars, actionVars, commandVars, processVars, renderVars>>
    \/ ThreadDies /\ UNCHANGED <<intervalVars, mergeVars, poolVars, filterVars, estimateVars, detectVars, speechVars, optionsVars, concatVars, serializeVars, actionVars, commandVars, processVars, renderVars>>
    \/ TestCompleted /\ UNCHANGED <<intervalVars, mergeVars, poolVars, filterVars, estimateVars, detectVars, speechVars, optionsVars, concatVars, serializeVars, actionVars, commandVars, processVars>>
    \/ Sleep /\ UNCHANGED <<intervalVars, mergeVars, poolVars, filterVars, estimateVars, detectVars, speechVars, optionsVars, concatVars, serializeVars, actionVars, commandVars, processVars>>
    \/ StopAndConcat /\ UNCHANGED <<intervalVars, mergeVars, poolVars, filterVars, estimateVars, detectVars, speechVars, optionsVars, concatVars, serializeVars, actionVars, commandVars, processVars>>

\* The worker thread and the thread of render both keep running.
SpecRender ==
    /\ InitRender
    /\ [][NextRender]_vars
    /\ WF_retryVars(RenderWithRetry \/ TaskCompleted \/ ThreadDies)
    /\ WF_render_pc(TestCompleted \/ Sleep \/ StopAndConcat)

\* ------------------------------------------------------------------------
\* The ffmpeg command of a batch (SpecCommand)
\* ------------------------------------------------------------------------

\* A batch of the plan: IntervalRenderTask.create has given each interval
\* its filters under the render options.
InitCommand ==
    /\ command_stage = "planned"
    /\ command_render_options \in CommandRenderOptions
    /\ separated_audio \in BOOLEAN
    /\ \E list \in CommandIntervals :
        \E speed_changed \in [1..Len(list) -> BOOLEAN], fade_or_volume \in [1..Len(list) -> BOOLEAN] :
            command_group = [k \in 1..Len(list) |->
                CreateWithFilters(list[k], speed_changed[k], fade_or_volume[k], command_render_options)]
    /\ command = NoCommand
    /\ IntervalsIdle
    /\ MergeIdle
    /\ PoolIdle
    /\ FilterIdle
    /\ EstimateIdle
    /\ DetectIdle
    /\ SpeechIdle
    /\ OptionsIdle
    /\ ConcatIdle
    /\ SerializeIdle
    /\ ActionIdle
    /\ RetryIdle
    /\ ProcessIdle
    /\ RenderIdle

\* task.interval_group_render_task.generate_command(...), called by the
\* worker for the batch.
GenerateCommandCall ==
    /\ command_stage = "planned"
    /\ command' = GenerateCommand(command_group, command_render_options, separated_audio)
    /\ command_stage' = "generated"
    /\ UNCHANGED <<command_group, command_render_options, separated_audio>>

NextCommand ==
    \/ GenerateCommandCall /\ UNCHANGED <<intervalVars, mergeVars, poolVars, filterVars, estimateVars, detectVars, speechVars, optionsVars, concatVars, serializeVars, actionVars, retryVars, processVars, renderVars>>

SpecCommand == InitCommand /\ [][NextCommand]_vars

\* ------------------------------------------------------------------------
\* process_video invocations on one ProcessedVideo (SpecProcess)
\* ------------------------------------------------------------------------

\* create_processed_video_initial_and_add_waiter has stored the ProcessedVideo
\* with status TASK_CREATED, and one or more process_video_task messages were
\* enqueued for it.
InitProcess ==
    /\ video_status = "TASK_CREATED"
    /\ video_file = FALSE
    /\ total_invocations \in 1..MaxInvocations
    /\ invocation_pc = [i \in Invocations |-> IF i < total_invocations THEN "queued" ELSE "idle"]
    /\ observed_status = [i \in Invocations |-> "none"]
    /\ pipeline_runs = {}
    /\ pipeline_outcome = [i \in Invocations |-> "none"]
    /\ upload_queue = <<>>
    /\ IntervalsIdle
    /\ MergeIdle
    /\ PoolIdle
    /\ FilterIdle
    /\ EstimateIdle
    /\ DetectIdle
    /\ SpeechIdle
    /\ OptionsIdle
    /\ ConcatIdle
    /\ SerializeIdle
    /\ ActionIdle
    /\ RetryIdle
    /\ CommandIdle
    /\ RenderIdle

\* get_video_for_processing: the select, without "for update", in a session
\* of its own; None is returned when the row is gone.
SelectVideo(i) ==
    /\ invocation_pc[i] = "queued"
    /\ IF video_status = "DELETED"
       THEN /\ invocation_pc' = [invocation_pc EXCEPT ![i] = "returned"]
            /\ UNCHANGED observed_status
       ELSE /\ observed_status' = [observed_status EXCEPT ![i] = video_status]
            /\ invocation_pc' = [invocation_pc EXCEPT ![i] = "selected"]
    /\ UNCHANGED <<video_status, video_file, total_invocations, pipeline_runs,
                   pipeline_outcome, upload_queue>>

\* get_video_for_processing: the match on the status read, and the end of
\* the session.  In the case TASK_CREATED the session writes status =
\* PROCESSING to the row (the update of a row that is gone raises) and the
\* ProcessedVideo is returned; in the other cases None is returned and
\* process_video returns.
MatchStatus(i) ==
    /\ invocation_pc[i] = "selected"
    /\ IF ProceedsWithVideo(observed_status[i])
       THEN IF video_status = "DELETED"
            THEN /\ invocation_pc' = [invocation_pc EXCEPT ![i] = "raised"]
                 /\ UNCHANGED video_status
            ELSE /\ video_status' = "PROCESSING"
                 /\ invocation_pc' = [invocation_pc EXCEPT ![i] = "processing"]
       ELSE /\ invocation_pc' = [invocation_pc EXCEPT ![i] = "returned"]
            /\ UNCHANGED video_status
    /\ UNCHANGED <<video_file, total_invocations, observed_status, pipeline_runs,
                   pipeline_outcome, upload_queue>>

\* run_video_processing: the pipeline runs; when it ends normally
\* run_video_pipeline stores the file and status = PROCESSED in the row.
\* With the row gone the update returns no row and the rest of
\* run_video_pipeline raises.
RunVideoProcessing(i) ==
    /\ invocation_pc[i] = "processing"
    /\ pipeline_runs' = pipeline_runs \cup {i}
    /\ \E outcome \in PipelineOutcomes :
        IF outcome = "processed" /\ video_status # "DELETED"
        THEN /\ video_status' = "PROCESSED"
             /\ video_file' = TRUE
             /\ pipeline_outcome' = [pipeline_outcome EXCEPT ![i] = "processed"]
        ELSE /\ pipeline_outcome' = [pipeline_outcome EXCEPT ![i] =
                                        IF outcome = "processed" THEN "failed" ELSE outcome]
             /\ UNCHANGED <<video_status, video_file>>
    /\ invocation_pc' = [invocation_pc EXCEPT ![i] = "handling"]
    /\ UNCHANGED <<total_invocations, observed_status, upload_queue>>

\* process_video from the except clauses on: mark_processing_impossible
\* after ProcessingImpossibleError, cleanup_failed_processing after another
\* exception, and then, after the try statement,
\* upload_video_task.delay(processed_video.id).
HandleAndScheduleUpload(i) ==
    /\ invocation_pc[i] = "handling"
    /\ video_status' =
            IF pipeline_outcome[i] = "impossible" /\ video_status # "DELETED" THEN "IMPOSSIBLE"
            ELSE IF pipeline_outcome[i] = "failed" THEN "DELETED"
            ELSE video_status
    /\ video_file' = IF pipeline_outcome[i] = "failed" THEN FALSE ELSE video_file
    /\ upload_queue' = Append(upload_queue, [invocation |-> i, after |-> pipeline_outcome[i],
                                             status |-> video_status', file |-> video_file'])
    /\ invocation_pc' = [invocation_pc EXCEPT ![i] = "done"]
    /\ UNCHANGED <<total_invocations, observed_status, pipeline_runs, pipeline_outcome>>

ProcessVideo(i) ==
    \/ SelectVideo(i)
    \/ MatchStatus(i)
    \/ RunVideoProcessing(i)
    \/ HandleAndScheduleUpload(i)

NextProcess ==
    \/ \E i \in Invocations : ProcessVideo(i) /\ UNCHANGED <<intervalVars, mergeVars, poolVars, filterVars, estimateVars, detectVars, speechVars, optionsVars, concatVars, serializeVars, actionVars, retryVars, commandVars, renderVars>>

SpecProcess == InitProcess /\ [][NextProcess]_vars

\* ------------------------------------------------------------------------
\* Properties of the timeline
\* ------------------------------------------------------------------------

\* intervals[i].end == intervals[i + 1].start
Contiguous(list) == \A i \in 1..(Len(list) - 1) : list[i].end = list[i + 1].start

\* Every interval ends no earlier than it starts, and starts no earlier than
\* the one before it.
Sorted(list) ==
    /\ \A i \in 1..Len(list) : list[i].start <= list[i].end
    /\ \A i \in 1..(Len(list) - 1) : list[i].start <= list[i + 1].start

RECURSIVE SumDurations(_)
SumDurations(list) ==
    IF list = <<>> THEN 0 ELSE Head(list).duration + SumDurations(Tail(list))

\* No two adjacent intervals have the same class.
Alternates(list) ==
    \A i \in 1..(Len(list) - 1) : list[i].is_silent # list[i + 1].is_silent

\* optimize has run Combine and Stretch without raising.
OptimizeDone == stage \in {"stretched", "optimized", "planned"}

\* C1: once optimize has completed Combine and Stretch without error, the
\* primary sequence is sorted and contiguous, starts at 0, ends at the media
\* duration, and the durations of its intervals sum to the media duration.
C1_OptimizeKeepsTimeline ==
    OptimizeDone =>
        /\ Len(interval_list) >= 1
        /\ Sorted(interval_list)
        /\ Contiguous(interval_list)
        /\ interval_list[1].start = 0
        /\ interval_list[Len(interval_list)].end = media_duration
        /\ SumDurations(interval_list) = media_duration

\* C1 witness: Stretch has moved the boundaries of a timeline of three intervals.
C1_Witness ==
    /\ stage = "stretched"
    /\ stretch_time > 0
    /\ Len(interval_list) >= 3

\* C4: after the Combine pass, and after the whole of optimize, no two
\* adjacent intervals of the primary sequence have the same class.
C4_NoAdjacentSameClass ==
    (stage \in {"combined", "recombined"} \/ OptimizeDone) => Alternates(interval_list)

\* C4 witness: optimize has run on a detected timeline (still referenced by
\* _interval_list_without_breaks after Combine) that had two adjacent
\* intervals of one class, both longer than the threshold.
C4_Witness ==
    /\ stage = "combined"
    /\ Len(interval_list) >= 2
    /\ \E i \in 1..(Len(interval_list_without_breaks) - 1) :
        /\ interval_list_without_breaks[i].is_silent
             = interval_list_without_breaks[i + 1].is_silent
        /\ interval_list_without_breaks[i].duration > short_interval_threshold
        /\ interval_list_without_breaks[i + 1].duration > short_interval_threshold

\* C5: a second Combine pass with the same threshold returns the sequence it
\* was given: same number of intervals, same boundaries, same classes.
C5_CombineIdempotent ==
    stage = "recombined" => interval_list = combine_input

\* C5 witness: the second pass has run on a timeline that the first pass had
\* changed and that still holds several intervals.
C5_Witness ==
    /\ stage = "recombined"
    /\ Len(interval_list) >= 2
    /\ short_interval_threshold > 0
    /\ Len(interval_list_without_breaks) > Len(interval_list)

\* ------------------------------------------------------------------------
\* Properties of the batch plan
\* ------------------------------------------------------------------------

\* The intervals of the batches, in order.
RECURSIVE Flatten(_)
Flatten(groups) ==
    IF groups = <<>> THEN <<>>
    ELSE [k \in 1..Len(Head(groups).interval_render_tasks)
            |-> Head(groups).interval_render_tasks[k].interval]
         \o Flatten(Tail(groups))

\* Position in the without-breaks sequence of the first interval of batch b.
RECURSIVE FirstIndex(_, _)
FirstIndex(groups, b) ==
    IF b = 1 THEN 1
    ELSE FirstIndex(groups, b - 1) + Len(groups[b - 1].interval_render_tasks)

\* The positions at which a batch starts.
BatchStarts(groups) == { FirstIndex(groups, b) : b \in 1..Len(groups) }

\* The start of the batch that holds position i.
StartOfBatchAt(groups, i) ==
    CHOOSE s \in BatchStarts(groups) :
        /\ s <= i
        /\ \A t \in BatchStarts(groups) : t <= i => t <= s

\* C6: walking the without-breaks sequence, interval i (after the first) opens
\* a new batch exactly when its end lies more than seconds_buffer after the
\* start of the batch of interval i - 1, or that batch already holds
\* max_group_size intervals; the first interval opens the first batch.  With
\* seconds_buffer = 5 and the intervals [0,2), [2,4), [4,7) the batches are
\* {[0,2), [2,4)} and {[4,7)}.
C6_NewBatchRule ==
    stage = "planned" =>
        LET list == interval_list_without_breaks IN
        /\ Flatten(tasks) = list
        /\ list # <<>> => 1 \in BatchStarts(tasks)
        /\ \A i \in 2..Len(list) :
            LET s == StartOfBatchAt(tasks, i - 1) IN
            (i \in BatchStarts(tasks)) <=>
                \/ (list[i].end - list[s].start) * max_seconds_buffer.den
                      > max_seconds_buffer.num
                \/ i - s >= max_group_size
        /\ ( /\ Len(list) = 3
             /\ <<list[1].start, list[1].end>> = <<0, 2>>
             /\ <<list[2].start, list[2].end>> = <<2, 4>>
             /\ <<list[3].start, list[3].end>> = <<4, 7>>
             /\ max_seconds_buffer.num = 5 * max_seconds_buffer.den
             /\ max_group_size >= 2 )
           => /\ Len(tasks) = 2
              /\ Len(tasks[1].interval_render_tasks) = 2
              /\ Len(tasks[2].interval_render_tasks) = 1
              /\ tasks[2].interval_render_tasks[1].interval.start = 4
              /\ tasks[2].interval_render_tasks[1].interval.end = 7

\* C6 witness: the plan of [0,2), [2,4), [4,7) with a buffer of 5 seconds.
C6_Witness ==
    /\ stage = "planned"
    /\ Len(interval_list_without_breaks) = 3
    /\ interval_list_without_breaks[1].end = 2
    /\ interval_list_without_breaks[2].end = 4
    /\ interval_list_without_breaks[3].end = 7
    /\ max_seconds_buffer.num = 5 * max_seconds_buffer.den
    /\ max_group_size >= 2
    /\ Len(tasks) = 2

\* The span of a batch, end_timestamp - start_timestamp, is within the buffer.
SpanWithinBuffer(group) ==
    ~GreaterThan(EndTimestamp(group) - StartTimestamp(group), max_seconds_buffer)

\* C7 as claimed: every planned batch has a span of at most seconds_buffer.
C7_EveryBatchWithinBuffer ==
    stage = "planned" => \A b \in 1..Len(tasks) : SpanWithinBuffer(tasks[b])

\* C7 as amended: every planned batch that holds more than one interval has a
\* span of at most seconds_buffer; a batch whose span exceeds seconds_buffer
\* holds a single interval, which is longer than the buffer by itself.
C7_MultiIntervalBatchWithinBuffer ==
    stage = "planned" =>
        \A b \in 1..Len(tasks) :
            \/ SpanWithinBuffer(tasks[b])
            \/ /\ Len(tasks[b].interval_render_tasks) = 1
               /\ GreaterThan(tasks[b].interval_render_tasks[1].interval.duration,
                              max_seconds_buffer)

\* C7 witness: a batch of several intervals that the buffer, not the group
\* size, closed before the next interval.
C7_Witness ==
    /\ stage = "planned"
    /\ Len(tasks) >= 2
    /\ Len(tasks[1].interval_render_tasks) >= 2
    /\ Len(tasks[1].interval_render_tasks) < max_group_size

\* C8: the batches partition the without-breaks sequence into consecutive
\* runs: every batch is non-empty and holds at most max_group_size intervals,
\* and the batches taken in order reproduce the sequence, interval by interval.
C8_BatchesPartitionView ==
    stage = "planned" =>
        /\ \A b \in 1..Len(tasks) :
            /\ Len(tasks[b].interval_render_tasks) >= 1
            /\ Len(tasks[b].interval_render_tasks) <= max_group_size
        /\ Flatten(tasks) = interval_list_without_breaks

\* C8 witness: a plan of several batches, one of them full.
C8_Witness ==
    /\ stage = "planned"
    /\ Len(tasks) >= 2
    /\ max_group_size >= 2
    /\ \E b \in 1..Len(tasks) : Len(tasks[b].interval_render_tasks) = max_group_size

\* ------------------------------------------------------------------------
\* Properties of the merge
\* ------------------------------------------------------------------------

\* The end of the last interval of a timeline.
EndOf(list) == list[Len(list)].end

\* The classes a timeline gives to the tick [t, t + 1).
ClassesAt(list, t) ==
    { list[i].is_silent : i \in { k \in 1..Len(list) : list[k].start <= t /\ t < list[k].end } }

\* Both detectors cover the same [0, D].
SameDuration == EndOf(silence) = EndOf(no_speech)

\* C2: for two contiguous timelines over the same [0, D], intervals_or
\* followed by intervals_collapse gives a sorted, contiguous timeline over
\* [0, D] that is silent at t exactly when silence or no_speech is silent at
\* t; every interval the sweep emits is the overlap of one interval of each
\* input, tagged with the "or" of their classes.
C2_MergeIsPointwiseOr ==
    (merge_stage = "collapsed" /\ SameDuration) =>
        /\ Len(intervals) >= 1
        /\ Sorted(intervals)
        /\ Contiguous(intervals)
        /\ intervals[1].start = 0
        /\ EndOf(intervals) = EndOf(silence)
        /\ \A t \in 0..(EndOf(silence) - 1) :
            ClassesAt(intervals, t) =
                { a \/ b : a \in ClassesAt(silence, t), b \in ClassesAt(no_speech, t) }
        /\ \A k \in 1..Len(or_intervals) :
            \E i \in 1..Len(silence), j \in 1..Len(no_speech) :
                /\ or_intervals[k].start = Max(silence[i].start, no_speech[j].start)
                /\ or_intervals[k].end = Min(silence[i].end, no_speech[j].end)
                /\ or_intervals[k].start <= or_intervals[k].end
                /\ or_intervals[k].is_silent = (silence[i].is_silent \/ no_speech[j].is_silent)

\* C2 witness: a merge of two timelines of two intervals each, cut at
\* different points, that gives three intervals.
C2_Witness ==
    /\ merge_stage = "collapsed"
    /\ SameDuration
    /\ Len(silence) = 2
    /\ Len(no_speech) = 2
    /\ silence[1].end # no_speech[1].end
    /\ Len(intervals) = 3

\* Both inputs are the single interval [0, 10).
SingleIntervalInputs ==
    /\ merge_stage = "collapsed"
    /\ Len(silence) = 1
    /\ Len(no_speech) = 1
    /\ silence[1].end = 10
    /\ no_speech[1].end = 10

\* C3, as stated: A silent and B audible merge into an audible interval, A
\* and B both silent into a silent one.
C3_SilentAudibleGivesAudible ==
    SingleIntervalInputs =>
        /\ Len(intervals) = 1
        /\ (silence[1].is_silent /\ ~no_speech[1].is_silent) => ~intervals[1].is_silent
        /\ (silence[1].is_silent /\ no_speech[1].is_silent) => intervals[1].is_silent

\* C3, amended: the merge of two single-interval timelines over [0, 10) is
\* the single interval [0, 10), silent when A or B is silent: A silent and B
\* audible give a silent interval, and so do A and B both silent.
C3_SilentAudibleGivesSilent ==
    SingleIntervalInputs =>
        /\ Len(intervals) = 1
        /\ intervals[1].start = 0
        /\ intervals[1].end = 10
        /\ (silence[1].is_silent /\ ~no_speech[1].is_silent) => intervals[1].is_silent
        /\ (silence[1].is_silent /\ no_speech[1].is_silent) => intervals[1].is_silent
        /\ (~silence[1].is_silent /\ ~no_speech[1].is_silent) => ~intervals[1].is_silent

\* C3 witness: A silent over [0, 10) merged with B audible over [0, 10).
C3_Witness ==
    /\ SingleIntervalInputs
    /\ silence[1].is_silent
    /\ ~no_speech[1].is_silent

\* ------------------------------------------------------------------------
\* Properties of the render worker pool (SpecPool)
\* ------------------------------------------------------------------------

\* The sequence is strictly ascending.
StrictlyAscending(seq) == \A k \in 1..(Len(seq) - 1) : seq[k] < seq[k + 1]

\* The elements of a sequence.
Range(seq) == { seq[k] : k \in 1..Len(seq) }

\* The number of places of a list of tasks that hold the task of index i.
Occurrences(list, i) == Cardinality({ k \in 1..Len(list) : list[k].task_id = i })

\* C9: whatever the interleaving of the workers' completions, the file list
\* _run_tasks returns holds exactly the outputs of the batches that were
\* rendered successfully, each once, in strictly ascending batch index: it is
\* determined by the set of completed batches and not by the order in which
\* they were completed.
C9_FilesAscendingByIndex ==
    main_pc = "returned" =>
        /\ main_result.kind = "returned"
        /\ StrictlyAscending(main_result.files)
        /\ Range(main_result.files) = { ThreadTask(i).output_file : i \in rendered }
        /\ Len(main_result.files) = Cardinality(rendered)
        /\ Len(main_result.files) = Len(completed_tasks)

\* C9 witness: _run_tasks has returned two or more files that the workers
\* completed out of index order.
C9_Witness ==
    /\ main_pc = "returned"
    /\ Len(main_result.files) >= 2
    /\ \E k \in 1..(Len(completed_tasks) - 1) :
        completed_tasks[k].task_id > completed_tasks[k + 1].task_id

\* C10: in every interleaving of the workers and the enqueuing orchestrator
\* a batch is never taken from the queue twice nor held by two workers, it is
\* reported through the completion callback at most once and so is at most
\* once in completed_tasks and corrupted_intervals together; a batch is in
\* the queue until it is taken, and when _run_tasks returns every batch has
\* been taken by exactly one worker and reported exactly once.
C10_EachBatchTakenOnce ==
    /\ \A i \in 0..(MaxTasks - 1) :
        /\ dequeues[i] <= 1
        /\ reports[i] <= 1
        /\ reports[i] <= dequeues[i]
        /\ Occurrences(task_queue, i) + dequeues[i] <= 1
        /\ Occurrences(completed_tasks \o corrupted_intervals, i) = reports[i]
        /\ Cardinality({ t \in ThreadIds : thread_task[t].task_id = i }) <= 1
        /\ (main_pc \in {"wait", "compare", "stop", "join", "returned", "raised"}
            /\ i < total_tasks)
                => Occurrences(task_queue, i) + dequeues[i] = 1
    /\ main_pc = "returned" =>
        \A i \in 0..(total_tasks - 1) : dequeues[i] = 1 /\ reports[i] = 1

\* C10 witness: two workers render two different batches at the same time
\* while the orchestrator is still enqueuing.
C10_Witness ==
    /\ main_pc \in {"enqueue", "put"}
    /\ \E t1 \in ThreadIds, t2 \in ThreadIds :
        /\ t1 # t2
        /\ thread_pc[t1] = "render"
        /\ thread_pc[t2] = "render"
        /\ thread_task[t1] # NoTask
        /\ thread_task[t2] # NoTask
        /\ thread_task[t1] # thread_task[t2]

\* The transcode of batch i failed with "Conversion failed!" in the last
\* line of the message.
ConversionFailed(i) ==
    ffmpeg_result[i].failed /\ ffmpeg_result[i].conversion_failed_last_line

\* C11: when the transcode of one batch fails with a corrupted-segment
\* error, under either policy and for any number of workers, every other
\* enqueued batch is still taken and rendered by the pool.
C11_SiblingBatchesStillRendered ==
    \A i \in 0..(MaxTasks - 1), j \in 0..(MaxTasks - 1) :
        [](( /\ i # j
             /\ ConversionFailed(i)
             /\ Occurrences(task_queue, j) = 1 )
           => <>(ffmpeg_result[j].executed))

\* C12: under fair scheduling, with transcodes that all end, _run_tasks ends:
\* it returns, or it raises the error of a failed worker.
C12_RunTasksTerminates == <>(main_pc \in {"returned", "raised"})

\* Batch i was transcoded and could not be rendered: ffmpeg failed on it or
\* the ffprobe check of its output failed.
NotRendered(i) == ffmpeg_result[i].executed /\ i \notin rendered

\* C13: with drop_corrupted_intervals disabled no batch is silently omitted,
\* whatever check_intervals is: when _run_tasks returns, the output of every
\* planned batch is in the file list, and a batch that could not be rendered
\* keeps _run_tasks from returning normally.
C13_NoBatchSilentlyOmitted ==
    ~render_options.drop_corrupted_intervals =>
        /\ main_pc = "returned" =>
            main_result.files = [k \in 1..total_tasks |-> ThreadTask(k - 1).output_file]
        /\ \A i \in 0..(MaxTasks - 1) : NotRendered(i) => main_pc # "returned"

\* The worker that transcoded batch i raised the error "kind" and put it into
\* thread_exceptions.
RaisedInThread(i, kind) ==
    \E k \in 1..Len(thread_exceptions) :
        thread_exceptions[k] = [error |-> kind, task_id |-> i]

\* _run_tasks raised the error "kind" of a worker.
RaisedByRunTasks(kind) == main_result.kind = "raised" /\ main_result.error = kind

\* C14: whenever ffmpeg fails with a message that contains "Error
\* initializing complex filter", the worker raises ValueError("Invalid render
\* options"); the batch is never dropped as corrupted nor reported as a
\* corrupted input range, whatever drop_corrupted_intervals and the last line
\* of the message are.
C14_ComplexFilterErrorIsConfigurationError ==
    \A i \in 0..(MaxTasks - 1) :
        (ffmpeg_result[i].failed /\ ffmpeg_result[i].complex_filter_error) =>
            /\ \/ RaisedInThread(i, "ValueError: Invalid render options")
               \/ RaisedByRunTasks("ValueError: Invalid render options")
            /\ ~RaisedInThread(i, "OSError: Input file is corrupted")
            /\ Occurrences(corrupted_intervals, i) = 0
            /\ \A t \in ThreadIds :
                (thread_task[t].task_id = i) => thread_pc[t] \notin {"report", "append"}

\* ------------------------------------------------------------------------
\* Properties of break removal (SpecIntervals)
\* ------------------------------------------------------------------------

\* The interval is a break: silent and at least as long as the threshold.
IsBreak(interval, threshold) ==
    interval.is_silent /\ interval.end - interval.start >= threshold

\* The positions of the primary sequence that are not breaks.
KeptPositions(list, threshold) ==
    { k \in 1..Len(list) : ~IsBreak(list[k], threshold) }

\* C17: after optimize with a finite silence_upper_threshold T the view
\* without breaks is the primary sequence with every silent interval of
\* duration >= T removed: it holds the other intervals, all of them, in the
\* order of the primary sequence; with no threshold it is the primary
\* sequence.
C17_WithoutBreaksDropsLongSilences ==
    stage \in {"optimized", "planned"} =>
        IF silence_upper_threshold = NoThreshold
        THEN interval_list_without_breaks = interval_list
        ELSE LET kept == KeptPositions(interval_list, silence_upper_threshold) IN
             /\ Len(interval_list_without_breaks) = Cardinality(kept)
             /\ \A j \in 1..Len(interval_list_without_breaks) :
                 \E k \in kept :
                     /\ Cardinality({ m \in kept : m <= k }) = j
                     /\ interval_list_without_breaks[j] = interval_list[k]

\* C17 witness: a finite threshold removed a silent interval exactly as long
\* as the threshold and kept a shorter silent interval and an audible one.
C17_Witness ==
    /\ stage = "optimized"
    /\ silence_upper_threshold # NoThreshold
    /\ \E k \in 1..Len(interval_list) :
        /\ interval_list[k].is_silent
        /\ interval_list[k].end - interval_list[k].start = silence_upper_threshold
    /\ \E j \in 1..Len(interval_list_without_breaks) :
        /\ interval_list_without_breaks[j].is_silent
        /\ interval_list_without_breaks[j].duration > 0
    /\ \E j \in 1..Len(interval_list_without_breaks) :
        ~interval_list_without_breaks[j].is_silent
    /\ Len(interval_list_without_breaks) < Len(interval_list)

\* ------------------------------------------------------------------------
\* Properties of the render filters (SpecFilter)
\* ------------------------------------------------------------------------

\* The speed requested for the class of the interval.
RequestedSpeed ==
    IF filter_interval.is_silent THEN filter_options.silent_speed
    ELSE filter_options.audible_speed

\* x * y = z
RatProductIs(x, y, z) == x.num * y.num * z.den = z.num * x.den * y.den

\* x <= y
RatLessEq(x, y) == x.num * y.den <= y.num * x.den

\* C15: clamp_speed(duration, speed, minimum) is within [0.5, 100] for
\* duration >= 0, speed > 0 and minimum > 0; it is duration / minimum when
\* duration / speed < minimum, and speed otherwise, brought into that range;
\* clamp_speed(1, 10, 0.5) = 2.
C15_ClampSpeedWithinTempoRange ==
    filter_stage \in {"speed", "fade"} =>
        LET d == filter_interval.duration
            m == filter_options.minimum_interval_duration
            too_short == d.num * RequestedSpeed.den * m.den
                            < m.num * d.den * RequestedSpeed.num
            r == current_speed
        IN /\ RatLessEq(Ratio(1, 2), r)
           /\ RatLessEq(r, Ratio(100, 1))
           /\ too_short =>
                /\ 2 * d.num * m.den < m.num * d.den => r = Ratio(1, 2)
                /\ d.num * m.den > 100 * m.num * d.den => r = Ratio(100, 1)
                /\ ( /\ 2 * d.num * m.den >= m.num * d.den
                     /\ d.num * m.den <= 100 * m.num * d.den ) => RatProductIs(r, m, d)
           /\ ~too_short =>
                /\ RatLess(RequestedSpeed, Ratio(1, 2)) => r = Ratio(1, 2)
                /\ RatLess(Ratio(100, 1), RequestedSpeed) => r = Ratio(100, 1)
                /\ ( /\ RatLessEq(Ratio(1, 2), RequestedSpeed)
                     /\ RatLessEq(RequestedSpeed, Ratio(100, 1)) ) => r = RequestedSpeed
           /\ (d = Ratio(1, 1) /\ RequestedSpeed = Ratio(10, 1) /\ m = Ratio(1, 2))
                => r = Ratio(2, 1)

\* C15 witness: clamp_speed(1, 10, 0.5) has returned 2.
C15_Witness ==
    /\ filter_stage = "speed"
    /\ filter_interval.duration = Ratio(1, 1)
    /\ RequestedSpeed = Ratio(10, 1)
    /\ filter_options.minimum_interval_duration = Ratio(1, 2)
    /\ current_speed = Ratio(2, 1)

\* C16: the duration of the rendered interval, duration / clamp_speed(...),
\* is at least minimum_interval_duration for every interval of positive
\* duration and every speed.
C16_RenderedDurationAtLeastMinimum ==
    (filter_stage \in {"speed", "fade"} /\ RatLess(Ratio(0, 1), filter_interval.duration)) =>
        RatLessEq(filter_options.minimum_interval_duration,
                  RatDiv(filter_interval.duration, current_speed))

\* C19: get_fade_filter clamps each fade to min(requested, duration / 2):
\* the two fades together are never longer than the interval, the fade-out
\* never starts before the fade-in ends, and a non-zero requested fade on an
\* interval of positive duration is still in the filter; a fade of 0.01 s on
\* an interval of 0.005 s is written as 0.0025.  The numbers written are the
\* clamped durations rounded to four decimals.
C19_FadesClampedToHalfInterval ==
    filter_stage = "fade" =>
        LET total == filter_interval.duration
            half == RatDiv(total, Ratio(2, 1))
            req_in == filter_options.interval_in_fade_duration
            req_out == filter_options.interval_out_fade_duration
        IN /\ fade.in_duration = (IF RatLessEq(req_in, half) THEN req_in ELSE half)
           /\ fade.out_duration = (IF RatLessEq(req_out, half) THEN req_out ELSE half)
           /\ RatLessEq(RatAdd(fade.in_duration, fade.out_duration), total)
           /\ RatLessEq(fade.in_duration, RatSub(total, fade.out_duration))
           /\ (req_in # Ratio(0, 1) /\ RatLess(Ratio(0, 1), total))
                => fade.has_in /\ RatLess(Ratio(0, 1), fade.in_duration)
           /\ (req_out # Ratio(0, 1) /\ RatLess(Ratio(0, 1), total))
                => fade.has_out /\ RatLess(Ratio(0, 1), fade.out_duration)
           /\ 2 * Abs(fade.in_d * fade.in_duration.den - 10000 * fade.in_duration.num)
                <= fade.in_duration.den
           /\ 2 * Abs(fade.out_d * fade.out_duration.den - 10000 * fade.out_duration.num)
                <= fade.out_duration.den
           /\ (total = Ratio(1, 200) /\ req_in = Ratio(1, 100))
                => fade.in_duration = Ratio(1, 400) /\ fade.in_d = 25 /\ fade.has_in

\* C19 witness: fades of 0.01 s were requested on an interval of 0.005 s and
\* both are in the filter with 0.0025.
C19_Witness ==
    /\ filter_stage = "fade"
    /\ filter_interval.duration = Ratio(1, 200)
    /\ filter_options.interval_in_fade_duration = Ratio(1, 100)
    /\ filter_options.interval_out_fade_duration = Ratio(1, 100)
    /\ fade.has_in
    /\ fade.has_out
    /\ fade.in_d = 25
    /\ fade.out_d = 25
    /\ fade.out_st = 25

\* Seconds of the intervals of one class.
RECURSIVE TotalOf(_, _)
TotalOf(list, is_silent) ==
    IF list = <<>> THEN 0
    ELSE (IF Head(list).is_silent = is_silent THEN Head(list).duration ELSE 0)
         + TotalOf(Tail(list), is_silent)

\* Seconds the intervals of one class take once each is played at its
\* clamped speed.
RECURSIVE RenderedTotal(_, _, _, _)
RenderedTotal(list, n, is_silent, speed) ==
    IF n = 0 THEN Ratio(0, 1)
    ELSE LET duration == Ratio(list[n].duration, 1)
             rest == RenderedTotal(list, n - 1, is_silent, speed)
         IN IF list[n].is_silent = is_silent
            THEN RatAdd(rest, RatDiv(duration,
                     ClampSpeed(duration, speed, filter_options.minimum_interval_duration)))
            ELSE rest

\* 10 s audible followed by one 50 s silent interval.
SixtySecondTimeline == <<Interval(0, 10, FALSE), Interval(10, 60, TRUE)>>

SixtySecondEstimate ==
    /\ stage = "estimated"
    /\ time_data.kind = "ok"
    /\ interval_list = SixtySecondTimeline
    /\ filter_options.audible_speed = Ratio(1, 1)
    /\ filter_options.silent_speed = Ratio(6, 1)

\* C18: calculate_time takes its "before" totals over the primary sequence
\* and its "after" totals over the without-breaks view, and delta is
\* after - before in every bucket, for the seconds and for the shares.  For
\* 10 s audible and one 50 s silent interval at speeds 1 and 6, after.all is
\* 10 when the silent interval was removed as a break (threshold 30) and
\* 10 + 50/6 when it was not.
C18_BeforeOverPrimaryAfterOverView ==
    (stage = "estimated" /\ time_data.kind = "ok") =>
        /\ time_data.before.audible.value = Ratio(TotalOf(interval_list, FALSE), 1)
        /\ time_data.before.silent.value = Ratio(TotalOf(interval_list, TRUE), 1)
        /\ time_data.before.all.value = Ratio(SumDurations(interval_list), 1)
        /\ time_data.after.audible.value =
               RenderedTotal(interval_list_without_breaks,
                             Len(interval_list_without_breaks), FALSE,
                             filter_options.audible_speed)
        /\ time_data.after.silent.value =
               RenderedTotal(interval_list_without_breaks,
                             Len(interval_list_without_breaks), TRUE,
                             filter_options.silent_speed)
        /\ time_data.after.all.value =
               RatAdd(time_data.after.audible.value, time_data.after.silent.value)
        /\ \A bucket \in {"all", "audible", "silent"} :
               /\ time_data.delta[bucket].value =
                      RatSub(time_data.after[bucket].value, time_data.before[bucket].value)
               /\ time_data.delta[bucket].ratio =
                      RatSub(time_data.after[bucket].ratio, time_data.before[bucket].ratio)
        /\ (SixtySecondEstimate /\ silence_upper_threshold = 30) =>
               time_data.after.all.value = Ratio(10, 1)
        /\ (SixtySecondEstimate /\ silence_upper_threshold = NoThreshold) =>
               time_data.after.all.value = Ratio(55, 3)

C18_Witness ==
    /\ SixtySecondEstimate
    /\ silence_upper_threshold = 30
    /\ interval_list_without_breaks = <<Interval(0, 10, FALSE)>>
    /\ time_data.before.all.value = Ratio(60, 1)
    /\ time_data.after.all.value = Ratio(10, 1)
    /\ time_data.delta.all.value = Ratio(-50, 1)

\* Every timestamp read lies in [0, media_duration].
TimestampsWithinMedia == first_event.time >= 0 /\ last_event.time <= media_duration

\* C20: for timestamps in [0, D] the timeline detect_silence returns starts
\* at 0, is contiguous, has its last interval closed at the media duration,
\* and its adjacent intervals alternate between audible and silent.
C20_DetectedTimelineAlternates ==
    (stage = "detected" /\ TimestampsWithinMedia) =>
        /\ interval_list # <<>>
        /\ interval_list[1].start = 0
        /\ Contiguous(interval_list)
        /\ interval_list[Len(interval_list)].end = media_duration
        /\ Alternates(interval_list)

\* The gaps of the recording that hold no speech: before the first range,
\* between two ranges, after the last range.
SpeechGaps ==
    LET n == Len(speech_timestamps) IN
    IF n = 0 THEN { SpeechRange(0, media_duration) }
    ELSE { SpeechRange(0, speech_timestamps[1].start) }
         \cup { SpeechRange(speech_timestamps[i].end, speech_timestamps[i + 1].start) : i \in 1..(n - 1) }
         \cup { SpeechRange(speech_timestamps[n].end, media_duration) }

BoundsOf(list, is_silent) ==
    { SpeechRange(list[i].start, list[i].end) : i \in { j \in 1..Len(list) : list[j].is_silent = is_silent } }

\* C21: for sorted, non-overlapping speech ranges inside [0, D] the timeline
\* of detect_speech is contiguous from 0 to D, its audible intervals are the
\* speech ranges with the same bounds, its silent intervals are gaps, and
\* every gap of positive length is one of its silent intervals.
C21_SpeechRangesAudibleGapsSilent ==
    stage = "detected" =>
        /\ Contiguous(interval_list)
        /\ interval_list = <<>> => media_duration = 0
        /\ interval_list # <<>> =>
               /\ interval_list[1].start = 0
               /\ interval_list[Len(interval_list)].end = media_duration
        /\ BoundsOf(interval_list, FALSE) = Range(speech_timestamps)
        /\ BoundsOf(interval_list, TRUE) \subseteq SpeechGaps
        /\ { g \in SpeechGaps : g.start < g.end } \subseteq BoundsOf(interval_list, TRUE)
        /\ \A i \in 1..Len(interval_list) :
               interval_list[i].duration = interval_list[i].end - interval_list[i].start

\* Two speech ranges with silence before, between and after them.
C21_Witness ==
    /\ stage = "detected"
    /\ Len(speech_timestamps) = 2
    /\ Len(interval_list) = 5
    /\ \A i \in 1..5 : interval_list[i].duration > 0

\* Every interval has the duration end - start, and it is not negative.
DurationsNonNegative(list) ==
    \A i \in 1..Len(list) :
        /\ list[i].duration = list[i].end - list[i].start
        /\ list[i].duration >= 0

\* C22: every interval of the timeline detect_silence returns has
\* duration = end - start >= 0, the final interval that is closed at the
\* media duration included.
C22_DetectedDurationsNonNegative ==
    stage = "detected" => DurationsNonNegative(interval_list)

\* C25: when the ffmpeg process fails, detect_silence raises and returns no
\* timeline.
C25_FailedDetectionRaises ==
    process_failed => stage # "detected"

\* The combinations of acceleration, codec and threads that are to be refused.
NvencIncompatible(fields) ==
    \/ /\ fields.use_nvenc
       /\ \/ fields.force_video_codec = NoCodec
          \/ fields.force_video_codec \notin {"hevc_nvenc", "h264_nvenc", "av1_nvenc"}
          \/ fields.threads > 8
    \/ /\ ~fields.use_nvenc
       /\ fields.force_video_codec \in {"hevc_nvenc", "h264_nvenc", "av1_nvenc"}

\* C23: the construction of RenderOptions, for a positive number of threads,
\* fails exactly when use_nvenc is true and the codec is None, is no nvenc
\* codec or threads > 8, or when use_nvenc is false and the codec is an nvenc
\* codec; every other combination is constructed.
C23_NvencValidatedAtConstruction ==
    (options_stage = "done" /\ options_input.threads >= 1) =>
        /\ options_result.kind = "ValidationError" <=> NvencIncompatible(options_input)
        /\ options_result.kind = "constructed" <=> ~NvencIncompatible(options_input)

\* nvenc with an nvenc codec is refused for 9 threads.
C23_Witness ==
    /\ options_stage = "done"
    /\ options_input = [use_nvenc |-> TRUE, force_video_codec |-> "h264_nvenc", threads |-> 9]
    /\ options_result.kind = "ValidationError"

\* C24: after a failed concatenation render does not return and nothing has
\* been moved to output_file.
C24_FailedConcatFailsRender ==
    concat_failed =>
        /\ concat_stage # "returned"
        /\ output_file \in {"absent", "earlier file"}

\* Two sequences of intervals with the same start, end and is_silent at
\* every place.
SameIntervals(a, b) ==
    /\ Len(a) = Len(b)
    /\ \A i \in 1..Len(a) :
        /\ a[i].start = b[i].start
        /\ a[i].end = b[i].end
        /\ a[i].is_silent = b[i].is_silent

\* C26: Intervals.deserialize(Intervals.serialize(x)) has the primary
\* sequence and the without-breaks sequence of x: same start, end and
\* is_silent, in the same order.
C26_SerializeRoundTrip ==
    serialize_stage = "deserialized" =>
        /\ SameIntervals(deserialized.interval_list, interval_list)
        /\ SameIntervals(deserialized.interval_list_without_breaks,
                         interval_list_without_breaks)

\* A timeline whose without-breaks view has lost an interval.
C26_Witness ==
    /\ serialize_stage = "deserialized"
    /\ Len(interval_list) = 3
    /\ Len(interval_list_without_breaks) = 2
    /\ Len(deserialized.interval_list_without_breaks) = 2

\* The detector strategy classes.
StrategyNames == {"Unsilence", "Vad", "UnsilenceAndVad"}

ClassNames == { class_registry[c].name : c \in 1..Len(class_registry) }

\* C27: for Unsilence, Vad and UnsilenceAndVad the action dumps
\* unsilence_class as the class name, and validating the dump succeeds and
\* gives the same class back; a name that no class of the hierarchy bears
\* is rejected with an error.
C27_ClassNameRoundTrip ==
    /\ (action_stage \in {"dumped", "validated"} /\ unsilence_class # NoClass
            /\ class_registry[unsilence_class].name \in StrategyNames) =>
           dumped_name = class_registry[unsilence_class].name
    /\ (action_stage = "validated" /\ unsilence_class # NoClass
            /\ class_registry[unsilence_class].name \in StrategyNames) =>
           validated = [kind |-> "ok", class |-> unsilence_class]
    /\ (action_stage = "validated" /\ dumped_name \notin ClassNames) =>
           validated.kind = "ValueError"

\* UnsilenceAndVad, two levels below Unsilence, has come back from its name.
C27_Witness ==
    /\ action_stage = "validated"
    /\ unsilence_class # NoClass
    /\ class_registry[unsilence_class].name = "UnsilenceAndVad"
    /\ dumped_name = "UnsilenceAndVad"
    /\ validated.class = unsilence_class

\* C28: the orchestrator leaves its polling loop normally only when every
\* batch has been reported exactly once, that is when completed_tasks and
\* corrupted_intervals together hold all the batches, although it reads the two
\* lengths one after the other without the lock while workers append; past
\* the loop (stopping, joining, returned) no batch is in the queue and no
\* worker is rendering or reporting one.
C28_LoopLeftWhenAllReported ==
    main_pc \in {"stop", "join", "returned"} =>
        /\ Len(completed_tasks) + Len(corrupted_intervals) = total_tasks
        /\ \A i \in 0..(total_tasks - 1) :
            /\ reports[i] = 1
            /\ Occurrences(completed_tasks \o corrupted_intervals, i) = 1
        /\ task_queue = <<>>
        /\ \A t \in ThreadIds : thread_pc[t] \notin {"render", "report", "append"}

\* C28 witness: the loop is left with one batch completed and one dropped as
\* corrupted, the workers not yet stopped.
C28_Witness ==
    /\ main_pc = "stop"
    /\ main_i = 0
    /\ total_tasks = MaxTasks
    /\ Len(completed_tasks) >= 1
    /\ Len(corrupted_intervals) >= 1
    /\ main_completed = Len(completed_tasks)

\* The positions at which the orchestrator or a worker is about to write the
\* task queue or an accumulator list, or at which a worker is about to read
\* the queue, are reached holding thread_lock.
WritersHoldLock ==
    /\ main_pc = "put" => thread_lock = MainThread
    /\ \A t \in ThreadIds : thread_pc[t] \in {"get", "append"} => thread_lock = t

\* The positions at which the orchestrator reads the length of an accumulator
\* list in its polling loop.
PollingReadsHoldLock == main_pc \in {"wait", "compare"} => thread_lock = MainThread

\* The queue of exceptions and the stop flags keep their initial values: no
\* thread has written what another thread reads.
NothingElseShared == thread_exceptions = <<>> /\ \A t \in ThreadIds : ~should_exit[t]

\* A step that changes the task queue or an accumulator list.
SharedListsWritten == task_queue' # task_queue \/ completed_tasks' # completed_tasks \/ corrupted_intervals' # corrupted_intervals

\* C29 as stated: every access to the task queue and to the accumulator
\* lists, the reads of the polling loop included, is made holding thread_lock,
\* and nothing else is shared between the orchestrator and the workers.
C29_EveryAccessUnderLockNothingElseShared ==
    /\ WritersHoldLock
    /\ PollingReadsHoldLock
    /\ NothingElseShared

\* C29: every write of the task queue, of completed_tasks and of
\* corrupted_intervals, and every read of the queue by a worker, is made by
\* the holder of thread_lock; the list read by the return statement is read
\* when no worker is running any more.
C29_WritesAndWorkerReadsUnderLock ==
    /\ []WritersHoldLock
    /\ [][SharedListsWritten => thread_lock # NoHolder]_vars
    /\ [](main_pc = "returned" =>
            \A t \in ThreadIds : thread_pc[t] \in {"unstarted", "exited", "failed"})

\* C29 witness: a worker holding the lock is about to append to an
\* accumulator list while the orchestrator, without the lock, has read the
\* length of completed_tasks and is about to read that of corrupted_intervals.
C29_Witness ==
    /\ main_pc = "compare"
    /\ \E t \in ThreadIds : thread_pc[t] = "append" /\ thread_lock = t

\* ------------------------------------------------------------------------
\* Properties of the first-generation render worker (SpecRetry)
\* ------------------------------------------------------------------------

\* The filtered transcode failed with "Conversion failed!" in the last line
\* of its message and drop_corrupted_intervals is false.
FilteredConversionFailed ==
    /\ retry_stage # "running"
    /\ ~retry_render_options.drop_corrupted_intervals
    /\ retry_executions[1].failed
    /\ retry_executions[1].conversion_failed_last_line

\* In that case the interval is rendered a second time, once.
RetriedOnce == FilteredConversionFailed => Len(retry_executions) = 2

\* In that case an exception is raised when the retry fails, and the error
\* naming the time range of the interval is raised only when the retry fails.
FatalWhenRetryFails ==
    FilteredConversionFailed =>
        /\ retry_executions[2].failed => retry_result.raised # "none"
        /\ retry_result.raised = "OSError: Input file is corrupted between" =>
            /\ retry_executions[2].failed
            /\ retry_result.start = retry_interval.start
            /\ retry_result.end = retry_interval.end

\* In that case a retry that succeeds ends the task in success: no exception,
\* __render_interval returns True, and the task is reported as completed
\* (the ffprobe check apart).
SuccessWhenRetrySucceeds ==
    (FilteredConversionFailed /\ ~retry_executions[2].failed) =>
        /\ retry_result.raised = "none"
        /\ retry_result.completed
        /\ retry_stage # "dead"
        /\ (retry_stage = "reported" /\ ~retry_render_options.check_intervals)
            => retry_reported = "completed"

\* C30: in the first-generation worker, when the filtered transcode fails
\* with "Conversion failed!" and drop_corrupted_intervals is false, the
\* interval is rendered once more without filters; when the retry succeeds
\* the task ends in success (no exception, reported as completed), and the
\* fatal error naming the time range of the interval is raised only when the
\* retry fails too.
C30_RetrySucceedsOrFatal ==
    /\ RetriedOnce
    /\ SuccessWhenRetrySucceeds
    /\ FatalWhenRetryFails

\* ------------------------------------------------------------------------
\* Properties of the Stretch pass (SpecIntervals)
\* ------------------------------------------------------------------------

\* The primary sequence as Combine left it, which is what Stretch was given:
\* until break removal _interval_list_without_breaks is still the detected list.
BeforeStretch == CombineIntervals(interval_list_without_breaks, short_interval_threshold)

\* The boundary between intervals i and i + 1 has moved by half of
\* stretch_time into the silent one of the two.
BoundaryMovedIntoSilent(before, after, i) ==
    /\ after[i].end = after[i + 1].start
    /\ (before[i].is_silent /\ ~before[i + 1].is_silent)
        => 2 * (before[i].end - after[i].end) = stretch_time
    /\ (~before[i].is_silent /\ before[i + 1].is_silent)
        => 2 * (after[i].end - before[i].end) = stretch_time

\* C31: the Stretch pass moves every boundary shared by an audible and a
\* silent neighbour by stretch_time / 2 into the silent interval, so audible
\* intervals grow and silent ones shrink; it leaves the start of the first
\* interval and the end of the last one where they were and keeps every
\* duration positive; and it raises exactly when stretch_time is at least the
\* duration of one of the intervals.
C31_StretchMovesBoundariesIntoSilence ==
    /\ stage = "stretched" =>
        /\ Len(interval_list) = Len(BeforeStretch)
        /\ \A i \in 1..Len(interval_list) :
            /\ interval_list[i].is_silent = BeforeStretch[i].is_silent
            /\ interval_list[i].duration > 0
            /\ interval_list[i].duration = interval_list[i].end - interval_list[i].start
            /\ interval_list[i].is_silent => interval_list[i].duration <= BeforeStretch[i].duration
            /\ ~interval_list[i].is_silent => interval_list[i].duration >= BeforeStretch[i].duration
        /\ \A i \in 1..(Len(interval_list) - 1) :
            BoundaryMovedIntoSilent(BeforeStretch, interval_list, i)
        /\ interval_list[1].start = BeforeStretch[1].start
        /\ interval_list[Len(interval_list)].end = BeforeStretch[Len(BeforeStretch)].end
    /\ stage \in {"stretched", "ValueError"} =>
        (stage = "ValueError"
            <=> \E i \in 1..Len(BeforeStretch) : stretch_time >= BeforeStretch[i].duration)

\* C31 witness: a silent interval between two audible ones has lost
\* stretch_time > 0 of its duration to its neighbours.
C31_Witness ==
    /\ stage = "stretched"
    /\ stretch_time > 0
    /\ Len(interval_list) = 3
    /\ interval_list[2].is_silent
    /\ interval_list[2].duration = BeforeStretch[2].duration - stretch_time
    /\ interval_list[1].duration > BeforeStretch[1].duration

\* ------------------------------------------------------------------------
\* Properties of intervals_collapse and of unequal inputs (SpecMerge)
\* ------------------------------------------------------------------------

\* C32: intervals_collapse returns a timeline of fewer than two intervals as
\* it is; otherwise no two adjacent intervals of its result have the same
\* class, the result starts where its input starts and ends where its input
\* ends, it is contiguous, and every tick has the class, or classes, the
\* input gave it: no run of positive duration is lost or doubled.
C32_CollapseKeepsClassification ==
    merge_stage = "collapsed" =>
        /\ Len(or_intervals) < 2 => intervals = or_intervals
        /\ Len(or_intervals) >= 2 =>
            /\ Len(intervals) >= 1
            /\ Alternates(intervals)
            /\ Sorted(intervals)
            /\ Contiguous(intervals)
            /\ intervals[1].start = or_intervals[1].start
            /\ EndOf(intervals) = EndOf(or_intervals)
            /\ \A t \in 0..(EndOf(or_intervals) - 1) :
                /\ ClassesAt(intervals, t) = ClassesAt(or_intervals, t)
                /\ Cardinality({ k \in 1..Len(intervals) :
                                    intervals[k].start <= t /\ t < intervals[k].end }) = 1

\* C32 witness: a sweep result of three or more intervals whose last two have
\* the same class is collapsed into fewer intervals, the last run still open
\* when the loop ends.
C32_Witness ==
    /\ merge_stage = "collapsed"
    /\ Len(or_intervals) >= 3
    /\ or_intervals[Len(or_intervals)].is_silent = or_intervals[Len(or_intervals) - 1].is_silent
    /\ or_intervals[Len(or_intervals)].duration > 0
    /\ Len(intervals) >= 2
    /\ Len(intervals) < Len(or_intervals)

\* The two detectors' timelines end at different times.
DifferentDuration == EndOf(silence) # EndOf(no_speech)

\* C33: when the two input timelines end at different times, the sweep stops
\* when the shorter one is exhausted, and the collapsed timeline is extended
\* to the later of the two ends: the result never ends before the longer
\* input does.
C33_MergedTimelineReachesLaterEnd ==
    (merge_stage = "collapsed" /\ DifferentDuration) =>
        /\ EndOf(intervals) = Max(EndOf(silence), EndOf(no_speech))
        /\ EndOf(intervals) >= EndOf(silence)
        /\ EndOf(intervals) >= EndOf(no_speech)

\* What the merge does with inputs of different ends: the sweep result and
\* the collapsed timeline both end where the shorter input ends.
MergedTimelineEndsAtEarlierEnd ==
    (merge_stage = "collapsed" /\ DifferentDuration) =>
        /\ EndOf(or_intervals) = Min(EndOf(silence), EndOf(no_speech))
        /\ EndOf(intervals) = EndOf(or_intervals)

\* ------------------------------------------------------------------------
\* Properties of the ffmpeg command of a batch (SpecCommand)
\* ------------------------------------------------------------------------

MultipleIntervalCommand == command_stage = "generated" /\ Len(command_group) >= 2

\* Every label the concat filter consumes is the output of exactly one chain,
\* and the output of every chain is consumed by the concat filter.
LabelsProducedOnceAndConsumed ==
    /\ \A k \in 1..Len(command.concat.inputs) :
        Cardinality({ c \in 1..Len(command.chains) :
                        command.chains[c].output = command.concat.inputs[k] }) = 1
    /\ \A c \in 1..Len(command.chains) :
        \E k \in 1..Len(command.concat.inputs) :
            command.concat.inputs[k] = command.chains[c].output

\* The trim ranges are relative to the start of the batch, lie within
\* [0, end_timestamp - start_timestamp], are those of the intervals, and
\* appear in the order of the intervals.
TrimRangesRelativeAndOrdered ==
    /\ \A c \in 1..Len(command.chains) :
        LET chain == command.chains[c]
            interval == command_group[chain.output.idx + 1].interval
        IN /\ chain.kind \in {"trim", "atrim"}
           /\ chain.output.idx \in 0..(Len(command_group) - 1)
           /\ chain.range = <<interval.start - command.input_options.ss,
                              interval.end - command.input_options.ss>>
           /\ 0 <= chain.range[1]
           /\ chain.range[1] <= chain.range[2]
           /\ chain.range[2] <= command.input_options.to - command.input_options.ss
    /\ \A c \in 1..(Len(command.chains) - 1) :
        /\ command.chains[c].output.idx <= command.chains[c + 1].output.idx
        /\ command.chains[c].range[1] <= command.chains[c + 1].range[1]

\* C38: in the filter graph of a batch of several intervals, in normal and
\* in audio_only mode, each label the concat filter consumes ([vfN], [afN])
\* is produced by exactly one trim / atrim chain before it and every produced
\* label is consumed; the trim ranges are relative to the start of the batch,
\* lie within [0, end_timestamp - start_timestamp] and are in interval order.
C38_ConcatLabelsMatchTrimChains ==
    MultipleIntervalCommand =>
        /\ LabelsProducedOnceAndConsumed
        /\ TrimRangesRelativeAndOrdered

\* The same in normal mode only.
ConcatLabelsMatchWithVideo ==
    (MultipleIntervalCommand /\ ~command_render_options.audio_only) =>
        /\ LabelsProducedOnceAndConsumed
        /\ TrimRangesRelativeAndOrdered

\* In audio_only mode the ranges are still right, and the labels [afN] are
\* produced once and consumed.
AudioOnlyRangesAndAudioLabels ==
    (MultipleIntervalCommand /\ command_render_options.audio_only) =>
        /\ TrimRangesRelativeAndOrdered
        /\ \A c \in 1..Len(command.chains) : command.chains[c].output.name = "af"
        /\ \A k \in 1..Len(command.concat.inputs) :
            command.concat.inputs[k].name = "af" =>
                Cardinality({ c \in 1..Len(command.chains) :
                                command.chains[c].output = command.concat.inputs[k] }) = 1

\* ------------------------------------------------------------------------
\* Properties of process_video (SpecProcess)
\* ------------------------------------------------------------------------

\* An invocation runs the pipeline only when it read TASK_CREATED and wrote
\* PROCESSING; one that read PROCESSING, PROCESSED or IMPOSSIBLE returns
\* without running it.
OnlyTaskCreatedProceeds ==
    \A i \in Invocations :
        /\ (i \in pipeline_runs \/ invocation_pc[i] \in {"processing", "handling", "done"})
            => observed_status[i] = "TASK_CREATED"
        /\ (observed_status[i] \in {"PROCESSING", "PROCESSED", "IMPOSSIBLE"}
                /\ invocation_pc[i] # "selected")
            => (invocation_pc[i] = "returned" /\ i \notin pipeline_runs)

\* At most one invocation runs, or is about to run, the pipeline.
AtMostOnePipelineRun ==
    Cardinality(pipeline_runs \cup { i \in Invocations : invocation_pc[i] = "processing" }) <= 1

\* C35: however many process_video_task messages are enqueued for a
\* ProcessedVideo and however the invocations interleave, at most one of
\* them runs the video pipeline; an invocation proceeds only if it read
\* TASK_CREATED and moved the status to PROCESSING, and returns without
\* processing when it read PROCESSING, PROCESSED or IMPOSSIBLE.
C35_DuplicateTasksFilteredOut ==
    /\ AtMostOnePipelineRun
    /\ OnlyTaskCreatedProceeds

\* With a single message for the ProcessedVideo.
SingleMessageRunsOnce == total_invocations = 1 => AtMostOnePipelineRun

\* The upload_video_task messages in the queue.
UploadMessages == { upload_queue[k] : k \in 1..Len(upload_queue) }

\* C39: upload_video_task is enqueued for a ProcessedVideo only after its
\* processing succeeded, the status being PROCESSED with a stored file;
\* after ProcessingImpossibleError (status IMPOSSIBLE) or another failure
\* (record deleted) process_video schedules no upload.
C39_UploadOnlyAfterSuccess ==
    \A m \in UploadMessages :
        /\ m.after = "processed"
        /\ m.status = "PROCESSED"
        /\ m.file

\* Every invocation that ran the pipeline to its end enqueues one upload,
\* whatever the outcome was.
UploadAfterEveryOutcome ==
    \A i \in Invocations :
        invocation_pc[i] = "done"
            <=> \E m \in UploadMessages : m.invocation = i /\ m.after = pipeline_outcome[i]

\* With a single message, the upload enqueued after a success finds the
\* status PROCESSED and the file stored.
SingleSuccessUploadsProcessed ==
    total_invocations = 1 =>
        \A m \in UploadMessages : m.after = "processed" => (m.status = "PROCESSED" /\ m.file)

\* ------------------------------------------------------------------------
\* Properties of the first-generation MediaRenderer.render (SpecRender)
\* ------------------------------------------------------------------------

\* The transcode of the worker raised a fatal error and the thread ended.
WorkerRaisedFatal == retry_stage = "dead"

\* C36: in the first-generation MediaRenderer.render, when a worker's
\* transcode raises a fatal error, render terminates and surfaces that error
\* to its caller; it does not wait forever for the failed interval to be
\* counted.
C36_RenderSurfacesWorkerError == WorkerRaisedFatal ~> (render_pc = "raised")

\* C36 in its weaker reading: render at least leaves its loop.
RenderTerminatesAfterWorkerError == WorkerRaisedFatal ~> (render_pc \in {"raised", "returned"})

\* Once the worker has died render stays in its loop.
RenderWaitsForDeadWorker == WorkerRaisedFatal => render_pc \in {"waiting", "sleeping"}

\* When the worker reports the task, render leaves the loop and returns.
RenderReturnsAfterReport == (retry_stage = "reported") ~> (render_pc = "returned")

\* ------------------------------------------------------------------------
\* Properties of the workers after _run_tasks has ended (SpecPoolFair)
\* ------------------------------------------------------------------------

\* Every worker has left run, or was never spawned.
WorkersTerminated == \A t \in ThreadIds : thread_pc[t] \in {"unstarted", "exited", "failed"}

\* C37: after FastMediaRenderer._run_tasks finishes, whether it returns or
\* raises a worker's error, every worker thread it spawned eventually
\* terminates: none keeps polling the queue or rendering remaining batches.
C37_WorkersTerminateAfterRunTasks == (main_pc \in {"returned", "raised"}) ~> WorkersTerminated

\* When _run_tasks returns, every worker was stopped and joined.
WorkersTerminatedAtReturn == main_pc = "returned" => WorkersTerminated

\* When _run_tasks raises, no worker was told to stop.
NoWorkerStoppedAtRaise == main_pc = "raised" => \A t \in ThreadIds : ~should_exit[t]

====
